---------------------------- MODULE Spec2Model ----------------------------
(***************************************************************************)
(* A model of the shiritori room runtime (package srv): the kana helpers,  *)
(* the game engine, the vote manager, the room and its message handlers,   *)
(* the turn timer and the locks the handlers take.                         *)
(*                                                                         *)
(* Ten specifications share the module:                                    *)
(*   Spec       one room: the handlers of the players' connections, the    *)
(*              vote-timeout tasks and the timer's expiry callback, cut    *)
(*              into the critical sections the code executes them in;      *)
(*   SpecTimer  the TimerManager and its driver goroutines, step by step;  *)
(*   SpecLock   the mutexes (room, engine, vote, timer) as the operations  *)
(*              acquire and release them;                                  *)
(*   SpecSeq    a started game whose operations are called one at a time,  *)
(*              each a whole call, with the last call recorded;            *)
(*   SpecEngine the engine of a started game, one operation at a time;     *)
(*   SpecLobby  the room manager and the connections' create_room, join    *)
(*              and leave_room handlers, cut at their lock releases;       *)
(*   SpecCast   the broadcasts of answers and leaves in a started game;    *)
(*   SpecSession one connection's session with its writePump goroutines,   *)
(*              and the cleanup goroutine with calls of StopCleanup;       *)
(*   SpecKana   getLastChar applied to the kana words of a bounded length; *)
(*   SpecLimit  the rate limiter of one connection, call by call.          *)
(* A word is the sequence of its runes (Unicode code points); the empty    *)
(* sequence is Go's "".  Romanised kana appear in the comments only.       *)
(***************************************************************************)
EXTENDS Integers, Sequences, FiniteSets, TLC

(***************************************************************************)
(* Bounds of the model.                                                    *)
(***************************************************************************)
\* StartGame calls explored in one run of a room
MaxGames == 2
\* challenge votes started in one run of a room
MaxVotes == 2
\* joins after the room's creation
MaxJoins == 2
\* length the history may reach before further words are not explored
MaxHistory == 2
\* messages the connections of a room handle in one run
MaxMessages == 5
\* handlers of one room that are in progress at the same time
MaxInFlight == 2
\* Start calls of the timer explored by SpecTimer
MaxStarts == 2
\* largest time limit (seconds) SpecTimer starts the timer with
MaxTime == 2
\* operations each task of SpecLock runs
MaxOps == 1

(***************************************************************************)
(* kana.go                                                                 *)
(***************************************************************************)
HiraganaLo == 12352
HiraganaHi == 12447
KatakanaLo == 12448
KatakanaHi == 12543
KataConvLo == 12449
KataConvHi == 12534
KataConvHiSmall == 12538
KataShift == 96
LongVowelMark == 12540

\* ratelimit.go: the violations that disconnect
maxViolations == 50
RuneN == 12435

\* the small kana and their normal-sized equivalents: ya yu yo, a i u e o, tsu, wa
smallToNormalKana ==
    [r \in {12419, 12421, 12423, 12353, 12355, 12357, 12359, 12361, 12387, 12430} |->
        CASE r = 12419 -> 12420 [] r = 12421 -> 12422 [] r = 12423 -> 12424
          [] r = 12353 -> 12354 [] r = 12355 -> 12356 [] r = 12357 -> 12358
          [] r = 12359 -> 12360 [] r = 12361 -> 12362 [] r = 12387 -> 12388
          [] r = 12430 -> 12431]

\* the runes of each vowel column (a, i, u, e, o) and n: the keys of vowelForHiragana
VowelA == {12354, 12363, 12373, 12383, 12394, 12399, 12414, 12420, 12425, 12431,
           12364, 12374, 12384, 12400, 12401}
VowelI == {12356, 12365, 12375, 12385, 12395, 12402, 12415, 12426, 12432,
           12366, 12376, 12386, 12403, 12404}
VowelU == {12358, 12367, 12377, 12388, 12396, 12405, 12416, 12422, 12427,
           12368, 12378, 12389, 12406, 12407}
VowelE == {12360, 12369, 12379, 12390, 12397, 12408, 12417, 12428, 12433,
           12370, 12380, 12391, 12409, 12410}
VowelO == {12362, 12371, 12381, 12392, 12398, 12411, 12418, 12424, 12429, 12434,
           12372, 12382, 12393, 12412, 12413}

\* the vowel a long-vowel mark takes after a hiragana
vowelForHiragana ==
    [r \in VowelA \cup VowelI \cup VowelU \cup VowelE \cup VowelO \cup {12435} |->
        CASE r \in VowelA -> 12354 [] r \in VowelI -> 12356 [] r \in VowelU -> 12358
          [] r \in VowelE -> 12360 [] r \in VowelO -> 12362 [] r = 12435 -> 12435]

katakanaToHiragana(r) ==
    IF r >= KataConvLo /\ r <= KataConvHi THEN r - KataShift
    ELSE IF r >= KataConvLo /\ r <= KataConvHiSmall THEN r - KataShift
    ELSE r

toHiragana(s) == [i \in 1..Len(s) |-> katakanaToHiragana(s[i])]

isHiragana(r) == r >= HiraganaLo /\ r <= HiraganaHi

isKatakana(r) == r >= KatakanaLo /\ r <= KatakanaHi

isLongVowelMark(r) == r = LongVowelMark

isJapanese(s) ==
    /\ Len(s) # 0
    /\ \A i \in 1..Len(s) : isHiragana(s[i]) \/ isKatakana(s[i]) \/ isLongVowelMark(s[i])

normalizeSmallKana(r) ==
    IF r \in DOMAIN smallToNormalKana THEN smallToNormalKana[r] ELSE r

\* getLastChar's backward walk from rune i (1-based); 0 is Go's zero rune
RECURSIVE lastCharFrom(_, _)
lastCharFrom(runes, i) ==
    IF i < 1 THEN normalizeSmallKana(runes[Len(runes)])
    ELSE IF isLongVowelMark(runes[i])
         THEN IF i > 1 /\ normalizeSmallKana(runes[i - 1]) \in DOMAIN vowelForHiragana
              THEN vowelForHiragana[normalizeSmallKana(runes[i - 1])]
              ELSE lastCharFrom(runes, i - 1)
         ELSE normalizeSmallKana(runes[i])

getLastChar(hiragana) ==
    IF Len(hiragana) = 0 THEN 0 ELSE lastCharFrom(hiragana, Len(hiragana))

getFirstChar(hiragana) ==
    IF Len(hiragana) = 0 THEN 0 ELSE normalizeSmallKana(hiragana[1])

charCount(s) == Len(s)

\* the ten rows, each named by the rune of its label (a, ka, sa, ta, na, ha, ma, ya, ra, wa)
KanaRows ==
    << [name |-> 12354, chars |-> {12354, 12356, 12358, 12360, 12362}],
       [name |-> 12363, chars |-> {12363, 12365, 12367, 12369, 12371,
                                   12364, 12366, 12368, 12370, 12372}],
       [name |-> 12373, chars |-> {12373, 12375, 12377, 12379, 12381,
                                   12374, 12376, 12378, 12380, 12382}],
       [name |-> 12383, chars |-> {12383, 12385, 12388, 12390, 12392,
                                   12384, 12386, 12389, 12391, 12393}],
       [name |-> 12394, chars |-> {12394, 12395, 12396, 12397, 12398}],
       [name |-> 12399, chars |-> {12399, 12402, 12405, 12408, 12411,
                                   12400, 12403, 12406, 12409, 12412,
                                   12401, 12404, 12407, 12410, 12413}],
       [name |-> 12414, chars |-> {12414, 12415, 12416, 12417, 12418}],
       [name |-> 12420, chars |-> {12420, 12422, 12424}],
       [name |-> 12425, chars |-> {12425, 12426, 12427, 12428, 12429}],
       [name |-> 12431, chars |-> {12431, 12434, 12435}] >>

\* GetKanaRow: the row of a rune, 0 (Go's "") when it has none
GetKanaRow(r) ==
    LET n == normalizeSmallKana(r)
        rows == {i \in 1..Len(KanaRows) : n \in KanaRows[i].chars}
    IN  IF rows = {} THEN 0 ELSE KanaRows[CHOOSE i \in rows : TRUE].name

\* ValidateAllowedRows: the first rune outside the allowed rows, 0 when there is none
RECURSIVE firstBadRow(_, _, _)
firstBadRow(hiragana, allowedRows, i) ==
    IF i > Len(hiragana) THEN 0
    ELSE IF isLongVowelMark(hiragana[i]) THEN firstBadRow(hiragana, allowedRows, i + 1)
    ELSE IF GetKanaRow(hiragana[i]) = 0 THEN firstBadRow(hiragana, allowedRows, i + 1)
    ELSE IF GetKanaRow(hiragana[i]) \notin allowedRows THEN hiragana[i]
    ELSE firstBadRow(hiragana, allowedRows, i + 1)

ValidateAllowedRows(hiragana, allowedRows) ==
    IF allowedRows = {} THEN 0 ELSE firstBadRow(hiragana, allowedRows, 1)

dakutenSet == {12364, 12366, 12368, 12370, 12372, 12374, 12376, 12378, 12380, 12382,
               12384, 12386, 12389, 12391, 12393, 12400, 12403, 12406, 12409, 12412}

handakutenSet == {12401, 12404, 12407, 12410, 12413}

\* ValidateNoDakuten: the first rune with a dakuten or handakuten, 0 when there is none
ValidateNoDakuten(hiragana) ==
    LET bad == {i \in 1..Len(hiragana) : hiragana[i] \in dakutenSet \cup handakutenSet}
    IN  IF bad = {} THEN 0
        ELSE hiragana[CHOOSE i \in bad : \A j \in bad : i <= j]

(***************************************************************************)
(* The words the players submit: tomato (in katakana), toto and ton (which *)
(* ends with n), the last two in hiragana.                                 *)
(***************************************************************************)
WTomatoK == <<12488, 12510, 12488>>
WToto == <<12392, 12392>>
WTon == <<12392, 12435>>
Words == {WTomatoK, WToto, WTon}

Names == {"alice", "bob", "carol"}
Creator == "alice"

Range(s) == {s[i] : i \in 1..Len(s)}

(***************************************************************************)
(* engine.go: the GameEngine.  An engine is a record                       *)
(*   [settings, history, currentWord, usedWords, turnOrder, turnIndex,     *)
(*    players]                                                             *)
(* with turnIndex counted from 0 as in the code and players a function     *)
(* from the names of the engine's players to [score, lives].  NilEngine is *)
(* the room's Engine field before the first StartGame.                     *)
(* A history entry is the code's WordEntry {Word, Player} (its timestamp   *)
(* is left out) and carries two fields the code does not have, which keep  *)
(* for the claims what the engine looked like when the word was applied:   *)
(*   before = [currentWord, usedWords, history] just before the apply,     *)
(*   after  = [score, lives] of the submitter just after it.               *)
(***************************************************************************)
defaultMaxLives == 3

NilEngine == [nil |-> TRUE]

\* the entries of a history as the code holds them: word and player
Plain(h) == [i \in 1..Len(h) |-> [word |-> h[i].word, player |-> h[i].player]]

EffectiveMaxLives(settings) ==
    IF settings.maxLives <= 0 THEN defaultMaxLives ELSE settings.maxLives

\* a NewGameEngine that takes MaxLives as it is, without the default
NewGameEngineNoDefault(settings, turnOrder) ==
    [settings    |-> settings,
     history     |-> <<>>,
     currentWord |-> <<>>,
     usedWords   |-> {},
     turnOrder   |-> turnOrder,
     turnIndex   |-> 0,
     players     |-> [n \in Range(turnOrder) |->
                        [score |-> 0, lives |-> settings.maxLives]]]

NewGameEngine(settings, turnOrder) ==
    [settings    |-> settings,
     history     |-> <<>>,
     currentWord |-> <<>>,
     usedWords   |-> {},
     turnOrder   |-> turnOrder,
     turnIndex   |-> 0,
     players     |-> [n \in Range(turnOrder) |->
                        [score |-> 0, lives |-> EffectiveMaxLives(settings)]]]

\* GameEngine.AddPlayer
EngineAddPlayer(ge, name) ==
    [ge EXCEPT
       !.players = [n \in DOMAIN ge.players \cup {name} |->
                      IF n = name
                      THEN [score |-> 0, lives |-> EffectiveMaxLives(ge.settings)]
                      ELSE ge.players[n]],
       !.turnOrder = Append(ge.turnOrder, name)]

\* index (from 1) of the first occurrence of name in a turn order, 0 if absent
IndexOf(order, name) ==
    IF name \in Range(order)
    THEN CHOOSE i \in 1..Len(order) :
            order[i] = name /\ \A j \in 1..(i - 1) : order[j] # name
    ELSE 0

RemoveAt(order, i) ==
    [j \in 1..(Len(order) - 1) |-> IF j < i THEN order[j] ELSE order[j + 1]]

\* a RemovePlayer that leaves the turn index as it is
TurnIndexKept(turnIndex, newOrder) == turnIndex

\* the turn index RemovePlayer leaves once the turn order is spliced to newOrder
TurnIndexAfterRemove(turnIndex, newOrder) ==
    IF Len(newOrder) > 0 /\ turnIndex >= Len(newOrder) THEN 0 ELSE turnIndex

\* GameEngine.RemovePlayer
EngineRemovePlayer(ge, name) ==
    LET pl == [n \in DOMAIN ge.players \ {name} |-> ge.players[n]]
        i  == IndexOf(ge.turnOrder, name)
    IN  IF i = 0
        THEN [ge EXCEPT !.players = pl]
        ELSE LET newOrder == RemoveAt(ge.turnOrder, i)
             IN  [ge EXCEPT !.players = pl,
                            !.turnOrder = newOrder,
                            !.turnIndex = TurnIndexAfterRemove(ge.turnIndex, newOrder)]

\* ps, ok := ge.Players[name]; ok && ps.Lives > 0
Alive(ge, name) == name \in DOMAIN ge.players /\ ge.players[name].lives > 0

\* the loop of applyWordLocked that advances the turn: idx is the index just tried
RECURSIVE AdvanceFrom(_, _, _)
AdvanceFrom(ge, idx, start) ==
    LET next == (idx + 1) % Len(ge.turnOrder)
    IN  IF next = start THEN next
        ELSE IF Alive(ge, ge.turnOrder[next + 1]) THEN next
        ELSE AdvanceFrom(ge, next, start)

\* an advance of the turn that does not pass over the eliminated players
AdvanceTurnNoSkip(ge) ==
    IF Len(ge.turnOrder) > 0 THEN (ge.turnIndex + 1) % Len(ge.turnOrder)
    ELSE ge.turnIndex

AdvanceTurn(ge) ==
    IF Len(ge.turnOrder) > 0 THEN AdvanceFrom(ge, ge.turnIndex, ge.turnIndex)
    ELSE ge.turnIndex

ScoreAfterApply(ps) == [ps EXCEPT !.score = @ + 1]

\* GameEngine.applyWordLocked (the timer reset it ends with is the caller's)
applyWordLocked(ge, word, hiragana, playerName) ==
    LET pl == IF playerName \in DOMAIN ge.players
              THEN [ge.players EXCEPT ![playerName] = ScoreAfterApply(@)]
              ELSE ge.players
        entry == [word   |-> word,
                  player |-> playerName,
                  before |-> [currentWord |-> ge.currentWord,
                              usedWords   |-> ge.usedWords,
                              history     |-> Plain(ge.history)],
                  after  |-> IF playerName \in DOMAIN pl
                             THEN pl[playerName]
                             ELSE [score |-> 0, lives |-> 0]]
    IN  [ge EXCEPT !.usedWords = @ \cup {hiragana},
                   !.currentWord = word,
                   !.history = Append(@, entry),
                   !.players = pl,
                   !.turnIndex = AdvanceTurn(ge)]

\* a penalty that also passes the turn on
applyPenaltyAndPass(ge, playerName) ==
    IF playerName \in DOMAIN ge.players
    THEN [ge EXCEPT !.players[playerName].lives = @ - 1,
                    !.turnIndex = (ge.turnIndex + 1) % Len(ge.turnOrder)]
    ELSE ge

\* GameEngine.applyPenaltyLocked
applyPenaltyLocked(ge, playerName) ==
    IF playerName \in DOMAIN ge.players
    THEN [ge EXCEPT !.players[playerName].lives = @ - 1]
    ELSE ge

\* the checks of ValidateAndSubmitWord in the code's order: the outcome and,
\* for a penalty or an accepted word, the engine it leaves
ValidateAndSubmitWord(ge, word, playerName, hasVotePending) ==
    LET hiragana == toHiragana(word)
        wlen == charCount(hiragana)
        rejected == [result |-> "Rejected", ge |-> ge]
        penalty == [result |-> "Penalty", ge |-> applyPenaltyLocked(ge, playerName)]
    IN  IF hasVotePending THEN rejected
        ELSE IF Len(ge.turnOrder) > 0 /\ ge.turnOrder[ge.turnIndex + 1] # playerName
             THEN rejected
        ELSE IF playerName \in DOMAIN ge.players /\ ge.players[playerName].lives <= 0
             THEN rejected
        ELSE IF ~isJapanese(word) THEN rejected
        ELSE IF ge.settings.minLen > 0 /\ wlen < ge.settings.minLen THEN rejected
        ELSE IF ge.settings.maxLen > 0 /\ wlen > ge.settings.maxLen THEN rejected
        ELSE IF /\ ge.currentWord # <<>>
                /\ getLastChar(toHiragana(ge.currentWord)) # getFirstChar(hiragana)
             THEN rejected
        ELSE IF hiragana \in ge.usedWords THEN penalty
        ELSE IF hiragana[Len(hiragana)] = RuneN THEN penalty
        ELSE IF ge.settings.noDakuten /\ ValidateNoDakuten(hiragana) # 0 THEN penalty
        ELSE IF /\ ge.settings.allowedRows # {}
                /\ ValidateAllowedRows(hiragana, ge.settings.allowedRows) # 0
             THEN penalty
        ELSE [result |-> "OK", ge |-> applyWordLocked(ge, word, hiragana, playerName)]

\* the history RevertWord leaves
HistoryAfterRevert(history) ==
    IF Len(history) > 0 THEN SubSeq(history, 1, Len(history) - 1) ELSE history

ScoreAfterRevert(ps) == IF ps.score > 0 THEN [ps EXCEPT !.score = @ - 1] ELSE ps

\* GameEngine.RevertWord
RevertWord(ge, word, playerName) ==
    LET hist == HistoryAfterRevert(ge.history)
        pl == IF playerName \in DOMAIN ge.players
              THEN [ge.players EXCEPT ![playerName] = ScoreAfterRevert(@)]
              ELSE ge.players
        prevWord == IF Len(hist) > 0 THEN hist[Len(hist)].word ELSE <<>>
        i == IndexOf(ge.turnOrder, playerName)
        g1 == [ge EXCEPT !.history = hist,
                         !.usedWords = @ \ {toHiragana(word)},
                         !.players = pl,
                         !.turnIndex = IF i > 0 THEN i - 1 ELSE @,
                         !.currentWord = prevWord]
    IN  applyPenaltyLocked(g1, playerName)

\* GameEngine.CheckElimination: <<eliminated, gameOver, lastSurvivor>>, "" for no survivor
CheckElimination(ge, playerName, totalPlayers) ==
    LET alive == {n \in DOMAIN ge.players : ge.players[n].lives > 0}
        eliminated == playerName \in DOMAIN ge.players /\ ge.players[playerName].lives <= 0
        gameOver == IF totalPlayers <= 1 THEN Cardinality(alive) = 0
                    ELSE Cardinality(alive) <= 1
        lastSurvivor == IF totalPlayers > 1 /\ Cardinality(alive) = 1
                        THEN CHOOSE n \in alive : TRUE ELSE ""
    IN  <<eliminated, gameOver, lastSurvivor>>

\* GameEngine.CurrentTurn
CurrentTurn(ge) ==
    IF Len(ge.turnOrder) > 0 /\ ge.turnIndex < Len(ge.turnOrder)
    THEN ge.turnOrder[ge.turnIndex + 1] ELSE ""

(***************************************************************************)
(* vote.go: the VoteManager.  A pending vote is a record                   *)
(*   [id, word, hiragana, player, challenger, votes, type, resolved,       *)
(*    entry]                                                               *)
(* with votes a function from the voters to their ballots.  id numbers the *)
(* PendingVote objects in the order of their allocation (the identity of   *)
(* the pointer) and entry is the history entry the vote was started for;   *)
(* the code has neither field.  NoVote is the nil pendingVote.  The        *)
(* callbacks playerExists and playerCount read the room's Players, passed  *)
(* here as the set pl.                                                     *)
(***************************************************************************)
NoVote == [nil |-> TRUE]

\* VoteManager.HasPendingVote
HasPendingVote(pv) == pv # NoVote /\ ~pv.resolved

\* VoteManager.countEligibleVotersLocked
countEligibleVotersLocked(pv, pl) ==
    IF pv # NoVote /\ pv.type = "challenge" /\ pv.player \in pl
    THEN Cardinality(pl) - 1
    ELSE Cardinality(pl)

\* the errors of VoteManager.StartChallengeVote
StartChallengeVoteFails(pv, challengerName, lastWord, pl) ==
    \/ pv # NoVote /\ ~pv.resolved
    \/ challengerName \notin pl
    \/ lastWord.player = challengerName

\* the vote VoteManager.StartChallengeVote creates
NewChallengeVote(id, challengerName, lastWord) ==
    [id         |-> id,
     word       |-> lastWord.word,
     hiragana   |-> toHiragana(lastWord.word),
     player     |-> lastWord.player,
     challenger |-> challengerName,
     votes      |-> [v \in {challengerName} |-> FALSE],
     type       |-> "challenge",
     resolved   |-> FALSE,
     entry      |-> lastWord]

\* accepted: strictly more accept ballots than reject ballots
Majority(acceptCount, rejectCount) == acceptCount > rejectCount

\* VoteManager.resolveVoteLocked: the counts it takes; missing is what it adds
\* to rejectCount, eligibleVoters - len(Votes)
Tally(pv, pl) ==
    LET acceptCount == Cardinality({v \in DOMAIN pv.votes : pv.votes[v]})
        ballotsNo == Cardinality({v \in DOMAIN pv.votes : ~pv.votes[v]})
        eligibleVoters == countEligibleVotersLocked([pv EXCEPT !.resolved = TRUE], pl)
        missing == eligibleVoters - Cardinality(DOMAIN pv.votes)
    IN  [acceptCount |-> acceptCount, rejectCount |-> ballotsNo + missing,
         missing |-> missing, eligibleVoters |-> eligibleVoters]

\* VoteManager.resolveVoteLocked: the resolution and the pending vote it leaves
resolveVoteLocked(pv, pl) ==
    LET acceptCount == Tally(pv, pl).acceptCount
        rejectCount == Tally(pv, pl).rejectCount
        accepted == Majority(acceptCount, rejectCount)
        result == [type       |-> pv.type,
                   word       |-> pv.word,
                   player     |-> pv.player,
                   challenger |-> pv.challenger,
                   accepted   |-> accepted,
                   reverted   |-> pv.type # "genre" /\ ~accepted,
                   vote       |-> pv.id,
                   entry      |-> pv.entry]
    IN  [resolved |-> TRUE,
         result   |-> result,
         pv       |-> IF pv.type = "genre" /\ accepted
                      THEN [pv EXCEPT !.resolved = TRUE]
                      ELSE NoVote]

Unresolved(pv) == [resolved |-> FALSE, result |-> NoVote, pv |-> pv]

\* a CastVote that takes the ballot of the challenged player as well
CastVoteOfAnyPlayer(pv, playerName, accept, pl) ==
    IF pv = NoVote \/ pv.resolved THEN Unresolved(pv)
    ELSE IF playerName \notin pl THEN Unresolved(pv)
    ELSE LET voted == [pv EXCEPT !.votes =
                          [v \in DOMAIN pv.votes \cup {playerName} |->
                              IF v = playerName THEN accept ELSE pv.votes[v]]]
         IN  IF Cardinality(DOMAIN voted.votes) < countEligibleVotersLocked(voted, pl)
             THEN Unresolved(voted)
             ELSE resolveVoteLocked(voted, pl)

\* VoteManager.CastVote
CastVote(pv, playerName, accept, pl) ==
    IF pv = NoVote \/ pv.resolved THEN Unresolved(pv)
    ELSE IF playerName \notin pl THEN Unresolved(pv)
    ELSE IF pv.type = "challenge" /\ pv.player = playerName THEN Unresolved(pv)
    ELSE LET voted == [pv EXCEPT !.votes =
                          [v \in DOMAIN pv.votes \cup {playerName} |->
                              IF v = playerName THEN accept ELSE pv.votes[v]]]
         IN  IF Cardinality(DOMAIN voted.votes) < countEligibleVotersLocked(voted, pl)
             THEN Unresolved(voted)
             ELSE resolveVoteLocked(voted, pl)

\* VoteManager.ForceResolveVote
ForceResolveVote(pv, pl) ==
    IF pv = NoVote \/ pv.resolved THEN Unresolved(pv) ELSE resolveVoteLocked(pv, pl)

\* a withdrawal open to every player
WithdrawChallengeByAnyone(pv, challengerName) ==
    /\ pv # NoVote
    /\ ~pv.resolved
    /\ pv.type = "challenge"

\* VoteManager.WithdrawChallenge succeeds
WithdrawChallengeOK(pv, challengerName) ==
    /\ pv # NoVote
    /\ ~pv.resolved
    /\ pv.type = "challenge"
    /\ pv.challenger = challengerName

(***************************************************************************)
(* The state.                                                              *)
(*                                                                         *)
(* The room (Spec):                                                        *)
(*   players       the keys of Room.Players                                *)
(*   owner, status, settings, engine   the Room's fields of those names    *)
(*   pendingVote   VoteManager.pendingVote                                 *)
(*   timerOn       the turn timer is running: its driver may still expire  *)
(*   conn          for each name, where the read loop of that player's     *)
(*                 connection is in the handler it is executing, with the  *)
(*                 handler's local variables                               *)
(*   timeouts      the vote-timeout goroutines handleChallenge has spawned *)
(*                 that have not finished, each with the id of the vote it *)
(*                 was spawned for                                         *)
(*   games, votesStarted, joins   how many StartGame calls succeeded, how  *)
(*                 many votes were started and how many players joined     *)
(*   handled       how many messages the connections have taken up         *)
(*   voteEnded     the ids of the votes that a ballot resolved or that     *)
(*                 their challenger withdrew (kept for the claims)         *)
(*                                                                         *)
(* The timer (SpecTimer):                                                  *)
(*   tmTimeLimit, tmLeft, tmCancel   TimerManager.timeLimit, .left and     *)
(*                 .cancel; a channel is numbered by the Start call that   *)
(*                 made it and 0 is the nil channel                        *)
(*   tmClosed      the channels that have been closed                      *)
(*   tmDrivers     the run goroutines in the order of their Start calls:   *)
(*                 where each is, and the channel its select waits on      *)
(*   tmCaller      where Room.StartGame is between its Timer.Stop and its  *)
(*                 Timer.Start                                             *)
(*   tmStopped     the Start calls that a returned Stop call followed      *)
(*                 (kept for the claims)                                   *)
(*   tmExpired     for each Start call, how many times onExpired was       *)
(*                 called while it was the latest (kept for the claims)    *)
(*                                                                         *)
(* The locks (SpecLock):                                                   *)
(*   holder        for each mutex the task that holds it, "" if free       *)
(*   task          for each task the operation it runs, how many of its    *)
(*                 lock and unlock calls it has made and how many          *)
(*                 operations it has begun                                 *)
(*                                                                         *)
(* The calls (SpecSeq, SpecEngine):                                        *)
(*   call          the last operation of the room that was called and has  *)
(*                 returned: its arguments, what it returned and the room  *)
(*                 as it was when the call was made (kept for the claims)  *)
(*                                                                         *)
(* The room manager and the connections (SpecLobby):                       *)
(*   rmRooms       the ids of the rooms in RoomManager.rooms               *)
(*   room          the Room objects by id: whether the id has been given   *)
(*                 out, Players as a function from the names to the        *)
(*                 connection that made the Player, EmptySince (set or     *)
(*                 nil) and Settings.MaxPlayers                            *)
(*   playerRoom    RoomManager.playerRoom, "" for a name without entry     *)
(*   wsc           the WSConn of each connection (playerName, currentRoom, *)
(*                 currentPlayer, conn open or closed) and where its read  *)
(*                 loop is in the handler it executes, with the handler's  *)
(*                 variables                                               *)
(*   sendCh        for each connection the Send channel of the Player it   *)
(*                 made last: none, open or closed                         *)
(*   faults        the sends on a closed channel and the closes of a       *)
(*                 closed channel that have happened (Go panics)           *)
(*   lobbyMsgs     how many messages the connections have taken up         *)
(*                                                                         *)
(* The broadcasts of a room (SpecCast):                                    *)
(*   queue         for each name the messages put in the Send channel of   *)
(*                 its Player, in the order of the sends                   *)
(*   effects       the operations in the order in which they changed the   *)
(*                 room or its engine (kept for the claims)                *)
(*                                                                         *)
(* The saved results (Spec):                                               *)
(*   saved         how often the OnGameOver callback has saved a result    *)
(*                 since the last StartGame (2 stands for two or more)     *)
(*                                                                         *)
(* The sweeper (SpecLobby, SpecSession):                                   *)
(*   done          RoomManager.done: open or closed, or panic once a       *)
(*                 closed done was closed again                            *)
(*   sweepers      the cleanup goroutines that run                         *)
(*                                                                         *)
(* The rate limiter of one connection (SpecLimit):                         *)
(*   rl            the ConnectionRateLimiter: the tokens of the global     *)
(*                 bucket and of the buckets by message type (whole        *)
(*                 tokens; a missing bucket has no entry), violations      *)
(***************************************************************************)
VARIABLES players, owner, status, settings, engine, pendingVote, timerOn,
          conn, timeouts, games, votesStarted, joins, handled,
          voteEnded,
          tmTimeLimit, tmLeft, tmCancel, tmClosed, tmDrivers, tmCaller,
          tmStopped, tmExpired,
          holder, task,
          call,
          rmRooms, room, playerRoom, wsc, sendCh, faults, lobbyMsgs,
          queue, effects,
          saved,
          done, sweepers,
          rl

roomVars == <<players, owner, status, settings, engine, pendingVote, timerOn,
              conn, timeouts, games, votesStarted, joins, handled,
              voteEnded>>
roomRest == <<players, owner, settings, engine, pendingVote, timerOn,
              conn, timeouts, games, votesStarted, joins, handled, voteEnded>>
timerVars == <<tmTimeLimit, tmLeft, tmCancel, tmClosed, tmDrivers, tmCaller,
               tmStopped, tmExpired>>
lockVars == <<holder, task>>
callVars == <<call>>
lobbyVars == <<rmRooms, room, playerRoom, wsc, sendCh, faults, lobbyMsgs>>
castVars == <<queue, effects>>
sweepVars == <<done, sweepers>>
limitVars == <<rl>>
vars == <<roomVars, timerVars, lockVars, callVars, lobbyVars, castVars, saved, sweepVars, limitVars>>

(***************************************************************************)
(* The room and the handlers of its connections.                           *)
(* A handler is cut where the code releases every lock between two         *)
(* accesses to the shared state; the sends to the clients are left out.    *)
(***************************************************************************)
IdleConn == [pc |-> "idle"]

\* the settings a room is created with
SettingsChoices ==
    {[maxLives |-> l, timeLimit |-> t, minLen |-> 0, maxLen |-> 0,
      noDakuten |-> FALSE, allowedRows |-> {}] : l \in {0, 1}, t \in {0, 1}}

\* NewTimerManager: no time limit, no channel, no driver
TimerIdle ==
    /\ tmTimeLimit = 0
    /\ tmLeft = 0
    /\ tmCancel = 0
    /\ tmClosed = {}
    /\ tmDrivers = <<>>
    /\ tmCaller = "idle"
    /\ tmStopped = {}
    /\ tmExpired = <<>>

Mutexes == {"room", "engine", "vote", "timer"}
Tasks == {"t1", "t2"}

LocksIdle ==
    /\ holder = [m \in Mutexes |-> ""]
    /\ task = [t \in Tasks |-> [op |-> "none", pos |-> 0, n |-> 0]]

\* Server.handleCreateRoom: the room the creator is left in
RoomCreated ==
    /\ players = {Creator}
    /\ owner = Creator
    /\ status = "waiting"
    /\ settings \in SettingsChoices
    /\ engine = NilEngine
    /\ pendingVote = NoVote
    /\ timerOn = FALSE
    /\ conn = [n \in Names |-> IdleConn]
    /\ timeouts = {}
    /\ games = 0
    /\ votesStarted = 0
    /\ joins = 0
    /\ handled = 0
    /\ voteEnded = {}

\* the room as a call finds it
Snap ==
    [status |-> status, engine |-> engine, pendingVote |-> pendingVote,
     players |-> players]

\* no operation has been called
NoCall == [op |-> "none"]

NoCalls == call = NoCall

\* the connections, the room ids generateRoomID gives out (r1 first) and the
\* names the clients of SpecLobby choose from
Conns == {"c1", "c2"}
RoomIds == {"r1", "r2"}
LobbyNames == {"alice", "bob"}

\* the function with no argument: an empty Players map
NoPlayers == [n \in {} |-> "c1"]

\* a room id that has not been given out
NoRoomYet == [made |-> FALSE, members |-> NoPlayers, emptySince |-> FALSE,
              maxPlayers |-> 0]

\* in no room under no name
NoMembership == [room |-> "", name |-> ""]

\* HandleWS: the WSConn of a new connection, its read loop before a message.
\* conn is the websocket, from is the membership the handler of a join found
NewConn ==
    [playerName |-> "", currentRoom |-> "", currentPlayer |-> FALSE,
     pc |-> "idle", op |-> "", name |-> "", target |-> "", remaining |-> 0,
     conn |-> "open", from |-> NoMembership]

\* NewRoomManager, with the connections accepted and no message read
LobbyIdle ==
    /\ rmRooms = {}
    /\ room = [r \in RoomIds |-> NoRoomYet]
    /\ playerRoom = [n \in LobbyNames |-> ""]
    /\ wsc = [c \in Conns |-> NewConn]
    /\ sendCh = [c \in Conns |-> "none"]
    /\ faults = {}
    /\ lobbyMsgs = 0

\* nothing has been broadcast
CastIdle ==
    /\ queue = [n \in Names |-> <<>>]
    /\ effects = <<>>

\* no result saved; NewRoomManager: done is open, no cleanup goroutine
SweeperIdle ==
    /\ saved = 0
    /\ done = "open"
    /\ sweepers = 0

\* the limits by message type (of the twelve entries the one the limiter's
\* test spams), the default of an unknown type and the limit on all messages;
\* Rate in tokens per second
defaultRateLimits == [answer |-> [Rate |-> 1, Burst |-> 3]]
unknownRateLimit == [Rate |-> 1, Burst |-> 2]
globalRateLimit == [Rate |-> 10, Burst |-> 20]

\* newTokenBucket: a bucket starts full
newTokenBucket(rate, burst) == [tokens |-> burst, max |-> burst, rate |-> rate]

\* tokenBucket.allow, the part that adds the tokens of the time elapsed since
\* the last check, here a whole number of seconds
Refilled(tb, secs) ==
    LET more == tb.tokens + secs * tb.rate
    IN  [tb EXCEPT !.tokens = IF more > tb.max THEN tb.max ELSE more]

\* tokenBucket.allow, the part that takes a token if there is one
allow(tb) ==
    IF tb.tokens >= 1
    THEN [ok |-> TRUE, tb |-> [tb EXCEPT !.tokens = @ - 1]]
    ELSE [ok |-> FALSE, tb |-> tb]

\* NewConnectionRateLimiter: the global bucket full, no bucket by type yet
NewLimiter ==
    [global |-> newTokenBucket(globalRateLimit.Rate, globalRateLimit.Burst),
     buckets |-> [t \in {} |-> 0],
     violations |-> 0]

LimiterIdle == rl = NewLimiter

\* the variables of the other specifications at rest
OthersIdle ==
    LocksIdle /\ NoCalls /\ LobbyIdle /\ CastIdle /\ SweeperIdle /\ LimiterIdle

Init == RoomCreated /\ TimerIdle /\ OthersIdle

\* the connections that are inside a handler
InFlight == {n \in Names : conn[n].pc # "idle"}

\* a connection that is in the room and between two messages
Ready(p) == p \in players /\ conn[p].pc = "idle"

\* the next message of a connection may be taken up
MayBegin(p) ==
    /\ Ready(p)
    /\ Cardinality(InFlight) < MaxInFlight
    /\ handled < MaxMessages

\* the permutations of a set of names, as sequences
Orders(S) ==
    {o \in [1..Cardinality(S) -> S] : \A i, j \in DOMAIN o : i # j => o[i] # o[j]}

\* Server.handleJoinRoom and Room.AddPlayer
Join(p) ==
    /\ p \notin players
    /\ conn[p].pc = "idle"
    /\ joins < MaxJoins
    /\ joins' = joins + 1
    /\ players' = players \cup {p}
    /\ engine' = IF status = "playing" /\ engine # NilEngine
                 THEN EngineAddPlayer(engine, p) ELSE engine
    /\ UNCHANGED <<owner, status, settings, pendingVote, timerOn, conn, timeouts,
                   games, votesStarted, voteEnded>>
    /\ UNCHANGED <<handled, timerVars, lockVars, callVars, lobbyVars, castVars, saved, sweepVars, limitVars>>

\* leaveCurrentRoom and Room.RemovePlayer: the timer is stopped with the last player
Leave(p) ==
    /\ MayBegin(p)
    /\ players' = players \ {p}
    /\ engine' = IF engine # NilEngine THEN EngineRemovePlayer(engine, p) ELSE engine
    /\ timerOn' = IF players' = {} THEN FALSE ELSE timerOn
    /\ UNCHANGED <<owner, status, settings, pendingVote, conn, timeouts,
                   games, votesStarted, joins, voteEnded>>
    /\ handled' = handled + 1
    /\ UNCHANGED <<timerVars, lockVars, callVars, lobbyVars, castVars, saved, sweepVars, limitVars>>

\* Room.StartGame without its check of the status
StartGameAlways == Cardinality(players) >= 1

\* Room.StartGame refuses a game in progress and an empty room
StartGameAllowed == status # "playing" /\ Cardinality(players) >= 1

\* WSConn.handleStartGame (only the owner) and Room.StartGame
StartGame(p) ==
    /\ MayBegin(p)
    /\ owner = p
    /\ StartGameAllowed
    /\ games < MaxGames
    /\ games' = games + 1
    /\ status' = "playing"
    /\ \E rest \in Orders(players \ {owner}) :
          engine' = NewGameEngine(settings, <<owner>> \o rest)
    /\ pendingVote' = NoVote
    /\ timerOn' = (settings.timeLimit > 0)
    /\ saved' = 0
    /\ UNCHANGED <<players, owner, settings, conn, timeouts, votesStarted, joins,
                   voteEnded>>
    /\ handled' = handled + 1
    /\ UNCHANGED <<timerVars, lockVars, callVars, lobbyVars, castVars, sweepVars,
                   limitVars>>

\* Room.OnGameOver, the callback of makeGameOverCallback: one more result is
\* saved
OnGameOver(n) == IF n < 2 THEN n + 1 ELSE 2

\* what the handlers do on a game over they detect: Status = "finished",
\* Votes.Clear(), StopTimer()
GameOverDetected ==
    /\ status' = "finished"
    /\ pendingVote' = NoVote
    /\ timerOn' = FALSE
    /\ saved' = OnGameOver(saved)

\* the elimination check after a penalty or a revert ends the game
EndsGame(ge, playerName) == CheckElimination(ge, playerName, Cardinality(players))[2]

\* Room.ValidateAndSubmitWord up to the call of the engine: the status is read
\* under the room lock, then the vote manager is asked for a pending vote
AnswerCheck(p, w) ==
    /\ MayBegin(p)
    /\ status = "playing"
    /\ engine # NilEngine
    /\ conn' = [conn EXCEPT ![p] =
                  [pc |-> "validate", word |-> w, pend |-> HasPendingVote(pendingVote)]]
    /\ UNCHANGED <<players, owner, status, settings, engine, pendingVote, timerOn,
                   timeouts, games, votesStarted, joins, voteEnded>>
    /\ handled' = handled + 1
    /\ UNCHANGED <<timerVars, lockVars, callVars, lobbyVars, castVars, saved, sweepVars, limitVars>>

\* Room.ValidateAndSubmitWord: the call of Engine.ValidateAndSubmitWord
AnswerValidate(p) ==
    /\ conn[p].pc = "validate"
    /\ LET r == ValidateAndSubmitWord(engine, conn[p].word, p, conn[p].pend)
       IN  /\ r.result = "OK" => Len(engine.history) < MaxHistory
           /\ engine' = r.ge
           /\ conn' = [conn EXCEPT ![p] =
                         IF r.result = "Rejected" THEN IdleConn
                         ELSE [pc |-> "finish", res |-> r.result]]
    /\ UNCHANGED <<players, owner, status, settings, pendingVote, timerOn,
                   timeouts, games, votesStarted, joins, voteEnded>>
    /\ UNCHANGED <<handled, timerVars, lockVars, callVars, lobbyVars, castVars, saved, sweepVars, limitVars>>

\* the rest of Room.ValidateAndSubmitWord (Votes.Clear after an accepted word)
\* and of Server.handleAnswer (the elimination check after a penalty)
AnswerFinish(p) ==
    /\ conn[p].pc = "finish"
    /\ conn' = [conn EXCEPT ![p] = IdleConn]
    /\ IF conn[p].res = "OK"
       THEN /\ pendingVote' = NoVote
            /\ UNCHANGED <<status, timerOn, saved>>
       ELSE IF EndsGame(engine, p)
            THEN GameOverDetected
            ELSE UNCHANGED <<status, pendingVote, timerOn, saved>>
    /\ UNCHANGED <<players, owner, settings, engine, timeouts, games,
                   votesStarted, joins, voteEnded>>
    /\ UNCHANGED <<handled, timerVars, lockVars, callVars, lobbyVars, castVars,
                   sweepVars, limitVars>>

\* Room.StartChallengeVote up to the call of the vote manager: the status
\* check and the snapshot of the history
ChallengeSnapshot(p) ==
    /\ MayBegin(p)
    /\ status = "playing"
    /\ engine # NilEngine
    /\ Len(engine.history) > 0
    /\ conn' = [conn EXCEPT ![p] =
                  [pc |-> "challenge", last |-> engine.history[Len(engine.history)]]]
    /\ UNCHANGED <<players, owner, status, settings, engine, pendingVote, timerOn,
                   timeouts, games, votesStarted, joins, voteEnded>>
    /\ handled' = handled + 1
    /\ UNCHANGED <<timerVars, lockVars, callVars, lobbyVars, castVars, saved, sweepVars, limitVars>>

\* VoteManager.StartChallengeVote and, when it succeeds, the timeout goroutine
\* Server.handleChallenge spawns
ChallengeStart(p) ==
    /\ conn[p].pc = "challenge"
    /\ conn' = [conn EXCEPT ![p] = IdleConn]
    /\ IF StartChallengeVoteFails(pendingVote, p, conn[p].last, players)
       THEN UNCHANGED <<pendingVote, timeouts, votesStarted>>
       ELSE /\ votesStarted < MaxVotes
            /\ votesStarted' = votesStarted + 1
            /\ pendingVote' = NewChallengeVote(votesStarted + 1, p, conn[p].last)
            /\ timeouts' = timeouts \cup {[vote |-> votesStarted + 1, pc |-> "sleep"]}
    /\ UNCHANGED <<players, owner, status, settings, engine, timerOn, games, joins,
                   voteEnded>>
    /\ UNCHANGED <<handled, timerVars, lockVars, callVars, lobbyVars, castVars, saved, sweepVars, limitVars>>

\* Room.applyVoteResult for a rejected challenge, then the elimination check
\* of Server.broadcastVoteResult
ApplyRevert(res) ==
    /\ engine' = IF engine # NilEngine
                 THEN RevertWord(engine, res.word, res.player) ELSE engine
    /\ IF engine # NilEngine /\ EndsGame(engine', res.player)
       THEN GameOverDetected
       ELSE UNCHANGED <<status, pendingVote, timerOn, saved>>

\* Server.handleVote: VoteManager.CastVote; a resolution that reverts is
\* applied by the next step, any other changes nothing more
VoteCast(p, accept) ==
    /\ MayBegin(p)
    /\ LET r == CastVote(pendingVote, p, accept, players)
       IN  /\ pendingVote' = r.pv
           /\ voteEnded' = IF r.resolved THEN voteEnded \cup {r.result.vote}
                           ELSE voteEnded
           /\ conn' = [conn EXCEPT ![p] =
                         IF r.resolved /\ r.result.reverted
                         THEN [pc |-> "apply", vres |-> r.result]
                         ELSE IdleConn]
    /\ UNCHANGED <<players, owner, status, settings, engine, timerOn, timeouts,
                   games, votesStarted, joins>>
    /\ handled' = handled + 1
    /\ UNCHANGED <<timerVars, lockVars, callVars, lobbyVars, castVars, saved, sweepVars, limitVars>>

\* Room.CastVote after the vote manager returned: the revert and its game over
VoteApply(p) ==
    /\ conn[p].pc = "apply"
    /\ conn' = [conn EXCEPT ![p] = IdleConn]
    /\ ApplyRevert(conn[p].vres)
    /\ UNCHANGED <<players, owner, settings, timeouts, games, votesStarted, joins,
                   voteEnded>>
    /\ UNCHANGED <<handled, timerVars, lockVars, callVars, lobbyVars, castVars,
                   sweepVars, limitVars>>

\* Server.handleWithdrawChallenge
Withdraw(p) ==
    /\ MayBegin(p)
    /\ WithdrawChallengeOK(pendingVote, p)
    /\ voteEnded' = voteEnded \cup {pendingVote.id}
    /\ pendingVote' = NoVote
    /\ UNCHANGED <<players, owner, status, settings, engine, timerOn, conn,
                   timeouts, games, votesStarted, joins>>
    /\ handled' = handled + 1
    /\ UNCHANGED <<timerVars, lockVars, callVars, lobbyVars, castVars, saved, sweepVars, limitVars>>

\* the timeout goroutine spawned for vote v wakes up: VoteManager.ForceResolveVote
TimeoutFire(v) ==
    /\ [vote |-> v, pc |-> "sleep"] \in timeouts
    /\ LET r == ForceResolveVote(pendingVote, players)
       IN  /\ pendingVote' = r.pv
           /\ timeouts' = (timeouts \ {[vote |-> v, pc |-> "sleep"]}) \cup
                 (IF r.resolved /\ r.result.reverted
                  THEN {[vote |-> v, pc |-> "apply", res |-> r.result]}
                  ELSE {})
    /\ UNCHANGED <<players, owner, status, settings, engine, timerOn, conn,
                   games, votesStarted, joins, voteEnded>>
    /\ UNCHANGED <<handled, timerVars, lockVars, callVars, lobbyVars, castVars, saved, sweepVars, limitVars>>

\* Room.ForceResolveVote after the vote manager returned
TimeoutApply(v) ==
    /\ \E t \in timeouts :
          /\ t.vote = v
          /\ t.pc = "apply"
          /\ timeouts' = timeouts \ {t}
          /\ ApplyRevert(t.res)
    /\ UNCHANGED <<players, owner, settings, conn, games, votesStarted, joins,
                   voteEnded>>
    /\ UNCHANGED <<handled, timerVars, lockVars, callVars, lobbyVars, castVars,
                   sweepVars, limitVars>>

\* the timer's onExpired callback of Server.handleCreateRoom
TimerExpire ==
    /\ timerOn
    /\ timerOn' = FALSE
    /\ status' = IF status = "playing" THEN "finished" ELSE status
    /\ saved' = IF status = "playing" THEN OnGameOver(saved) ELSE saved
    /\ UNCHANGED <<players, owner, settings, engine, pendingVote, conn, timeouts,
                   games, votesStarted, joins, voteEnded>>
    /\ UNCHANGED <<handled, timerVars, lockVars, callVars, lobbyVars, castVars,
                   sweepVars, limitVars>>

Next ==
    \/ \E p \in Names : Join(p)
    \/ \E p \in Names : Leave(p)
    \/ \E p \in Names : StartGame(p)
    \/ \E p \in Names, w \in Words : AnswerCheck(p, w)
    \/ \E p \in Names : AnswerValidate(p)
    \/ \E p \in Names : AnswerFinish(p)
    \/ \E p \in Names : ChallengeSnapshot(p)
    \/ \E p \in Names : ChallengeStart(p)
    \/ \E p \in Names, a \in BOOLEAN : VoteCast(p, a)
    \/ \E p \in Names : VoteApply(p)
    \/ \E p \in Names : Withdraw(p)
    \/ \E v \in 1..MaxVotes : TimeoutFire(v)
    \/ \E v \in 1..MaxVotes : TimeoutApply(v)
    \/ TimerExpire

Spec == Init /\ [][Next]_vars

(***************************************************************************)
(* The claims about the room.                                              *)
(***************************************************************************)
\* no handler and no timeout task is between two of its steps
Quiescent == InFlight = {} /\ \A t \in timeouts : t.pc = "sleep"

HiraganaForms(history) == {toHiragana(history[i].word) : i \in 1..Len(history)}

\* C1: while the game is playing, the player whose turn is current never has
\* lives <= 0 (looked at when every handler has returned, so after each accepted
\* word, penalty, revert and removal)
C1_CurrentPlayerAlive ==
    (/\ status = "playing"
     /\ engine # NilEngine
     /\ Quiescent
     /\ CurrentTurn(engine) \in DOMAIN engine.players)
    => engine.players[CurrentTurn(engine)].lives > 0

\* C2: usedWords and the history correspond one to one: the hiragana forms of
\* the history entries are exactly the members of usedWords and no two entries
\* have the same hiragana form, under every interleaving of the handlers
C2_UsedWordsMatchHistory ==
    engine # NilEngine =>
        /\ HiraganaForms(engine.history) = engine.usedWords
        /\ \A i, j \in 1..Len(engine.history) :
              i # j => toHiragana(engine.history[i].word)
                         # toHiragana(engine.history[j].word)

\* a step in which the engine accepts a word
WordApplied ==
    /\ engine # NilEngine
    /\ engine' # NilEngine
    /\ Len(engine'.history) > Len(engine.history)

\* C3: a word is never accepted while the room has an unresolved pending vote
C3_NoAcceptWhileVotePending ==
    [][WordApplied => ~HasPendingVote(pendingVote)]_vars

\* C4: a timeout task that fires after its vote was resolved by its ballots or
\* withdrawn changes neither the vote state nor the game state and produces no
\* vote result
C4_LateTimeoutIsNoOp ==
    [][\A t \in timeouts :
          (t.pc = "sleep" /\ t \notin timeouts' /\ t.vote \in voteEnded)
          => /\ pendingVote' = pendingVote
             /\ engine' = engine
             /\ status' = status
             /\ \A u \in timeouts' : u.vote # t.vote]_vars

RevertsDue ==
    {conn[p].vres : p \in {n \in Names : conn[n].pc = "apply"}}
        \cup {t.res : t \in {u \in timeouts : u.pc = "apply"}}

\* the revert of the rejected challenge res is applied in this step
RevertApplied(res) ==
    \/ \E p \in Names : /\ conn[p].pc = "apply"
                        /\ conn[p].vres = res
                        /\ conn'[p].pc = "idle"
    \/ \E t \in timeouts : t.pc = "apply" /\ t.res = res /\ t \notin timeouts'

\* the engine after the revert of entry e, compared with the engine just before
\* e was applied and the submitter just after
Restored(ge, e) ==
    /\ ge.currentWord = e.before.currentWord
    /\ ge.usedWords = e.before.usedWords
    /\ Plain(ge.history) = e.before.history
    /\ ge.players[e.player].score = e.after.score - 1
    /\ ge.players[e.player].score >= 0
    /\ ge.players[e.player].lives = e.after.lives - 1
    /\ CurrentTurn(ge) = e.player

\* C10: when a challenge resolves as not accepted the word is reverted:
\* currentWord, usedWords and history are as just before the word was applied,
\* the submitter's score is 1 less than after the apply, the lives are 1 less
\* and the turn is the submitter's (for a submitter who is still in the game)
C10_RevertRestores ==
    [][\A res \in RevertsDue :
          (/\ RevertApplied(res)
           /\ engine # NilEngine
           /\ res.player \in DOMAIN engine.players
           /\ res.player \in DOMAIN engine'.players)
          => Restored(engine', res.entry)]_vars

(***************************************************************************)
(* timer.go: the TimerManager and its run goroutines (SpecTimer).          *)
(* A run goroutine is at one of                                            *)
(*   "select"  about to evaluate tm.cancel and enter the select            *)
(*   "wait"    blocked in the select on the channel ch (0: the nil         *)
(*             channel, which is never ready) and on the ticker            *)
(*   "tick"    the ticker case was taken, tm.mu is not locked yet          *)
(*   "notify"  tm.mu released, about to call onTick                        *)
(*   "expire"  tm.mu released, about to call onExpired                     *)
(*   "done"    returned                                                    *)
(* The read of tm.cancel by the select is not under tm.mu: it yields the   *)
(* value the field has when the goroutine gets there.                      *)
(***************************************************************************)
\* TimerManager.stopLocked
StopLocked ==
    /\ tmClosed' = IF tmCancel # 0 THEN tmClosed \cup {tmCancel} ELSE tmClosed
    /\ tmCancel' = 0

\* a Stop call returns: the latest Start call, if any, is followed by a Stop
StopReturns ==
    tmStopped' = IF Len(tmDrivers) > 0 THEN tmStopped \cup {Len(tmDrivers)}
                 ELSE tmStopped

\* Room.StartGame, which holds the room lock until it returns: the check of
\* the status, then r.Timer.Stop()
GameStop ==
    /\ tmCaller = "idle"
    /\ status # "playing"
    /\ Len(tmDrivers) < MaxStarts
    /\ tmCaller' = "stopped"
    /\ StopLocked
    /\ StopReturns
    /\ UNCHANGED <<tmTimeLimit, tmLeft, tmDrivers, tmExpired>>
    /\ UNCHANGED <<status, roomRest, lockVars, callVars, lobbyVars, castVars, saved, sweepVars, limitVars>>

\* Room.StartGame: Status = "playing", the new engine, then
\* r.Timer.Start(r.Settings.TimeLimit), the limit being positive
GameStart(t) ==
    /\ tmCaller = "stopped"
    /\ tmCaller' = "idle"
    /\ status' = "playing"
    /\ tmTimeLimit' = t
    /\ tmLeft' = t
    /\ tmCancel' = Len(tmDrivers) + 1
    /\ tmDrivers' = Append(tmDrivers, [pc |-> "select", ch |-> 0])
    /\ tmExpired' = Append(tmExpired, 0)
    /\ \E rest \in Orders(players \ {owner}) :
          engine' = NewGameEngine(settings, <<owner>> \o rest)
    /\ UNCHANGED <<tmClosed, tmStopped>>
    /\ UNCHANGED <<players, owner, settings, pendingVote, timerOn, conn, timeouts,
                   games, votesStarted, joins, handled, voteEnded>>
    /\ UNCHANGED <<lockVars, callVars, lobbyVars, castVars, saved, sweepVars, limitVars>>

\* Server.handleAnswer and Server.broadcastVoteResult on a game over by
\* elimination: Status = "finished" under the room lock (StopTimer follows)
EliminationGameOver ==
    /\ tmCaller = "idle"
    /\ status = "playing"
    /\ status' = "finished"
    /\ UNCHANGED <<timerVars, roomRest, lockVars, callVars, lobbyVars, castVars, saved, sweepVars, limitVars>>

\* Room.StopTimer, called by the handlers on a game over and on the last leave
StopTimer ==
    /\ StopLocked
    /\ StopReturns
    /\ UNCHANGED <<tmTimeLimit, tmLeft, tmDrivers, tmCaller, tmExpired>>
    /\ UNCHANGED <<status, roomRest, lockVars, callVars, lobbyVars, castVars, saved, sweepVars, limitVars>>

\* TimerManager.Reset
Reset ==
    /\ tmTimeLimit > 0
    /\ tmLeft' = tmTimeLimit
    /\ UNCHANGED <<tmTimeLimit, tmCancel, tmClosed, tmDrivers, tmCaller, tmStopped,
                   tmExpired>>
    /\ UNCHANGED <<status, roomRest, lockVars, callVars, lobbyVars, castVars, saved, sweepVars, limitVars>>

\* run: the select evaluates tm.cancel and blocks
DriverSelect(d) ==
    /\ d \in DOMAIN tmDrivers
    /\ tmDrivers[d].pc = "select"
    /\ tmDrivers' = [tmDrivers EXCEPT ![d] = [pc |-> "wait", ch |-> tmCancel]]
    /\ UNCHANGED <<tmTimeLimit, tmLeft, tmCancel, tmClosed, tmCaller, tmStopped,
                   tmExpired>>
    /\ UNCHANGED <<status, roomRest, lockVars, callVars, lobbyVars, castVars, saved, sweepVars, limitVars>>

\* run: case <-tm.cancel, the channel waited on being closed
DriverCancelled(d) ==
    /\ d \in DOMAIN tmDrivers
    /\ tmDrivers[d].pc = "wait"
    /\ tmDrivers[d].ch \in tmClosed
    /\ tmDrivers' = [tmDrivers EXCEPT ![d].pc = "done"]
    /\ UNCHANGED <<tmTimeLimit, tmLeft, tmCancel, tmClosed, tmCaller, tmStopped,
                   tmExpired>>
    /\ UNCHANGED <<status, roomRest, lockVars, callVars, lobbyVars, castVars, saved, sweepVars, limitVars>>

\* run: case <-ticker.C, the channel waited on not being closed
DriverTick(d) ==
    /\ d \in DOMAIN tmDrivers
    /\ tmDrivers[d].pc = "wait"
    /\ tmDrivers[d].ch \notin tmClosed
    /\ tmDrivers' = [tmDrivers EXCEPT ![d].pc = "tick"]
    /\ UNCHANGED <<tmTimeLimit, tmLeft, tmCancel, tmClosed, tmCaller, tmStopped,
                   tmExpired>>
    /\ UNCHANGED <<status, roomRest, lockVars, callVars, lobbyVars, castVars, saved, sweepVars, limitVars>>

\* run: the critical section of a tick
DriverDecrement(d) ==
    /\ d \in DOMAIN tmDrivers
    /\ tmDrivers[d].pc = "tick"
    /\ tmLeft' = tmLeft - 1
    /\ IF tmLeft' <= 0
       THEN /\ tmCancel' = 0
            /\ tmDrivers' = [tmDrivers EXCEPT ![d].pc = "expire"]
       ELSE /\ tmCancel' = tmCancel
            /\ tmDrivers' = [tmDrivers EXCEPT ![d].pc = "notify"]
    /\ UNCHANGED <<tmTimeLimit, tmClosed, tmCaller, tmStopped, tmExpired>>
    /\ UNCHANGED <<status, roomRest, lockVars, callVars, lobbyVars, castVars, saved, sweepVars, limitVars>>

\* run: tm.onTick(left), then the next iteration
DriverNotify(d) ==
    /\ d \in DOMAIN tmDrivers
    /\ tmDrivers[d].pc = "notify"
    /\ tmDrivers' = [tmDrivers EXCEPT ![d].pc = "select"]
    /\ UNCHANGED <<tmTimeLimit, tmLeft, tmCancel, tmClosed, tmCaller, tmStopped,
                   tmExpired>>
    /\ UNCHANGED <<status, roomRest, lockVars, callVars, lobbyVars, castVars, saved, sweepVars, limitVars>>

\* the reason of a game over by the timer ("taimu appu")
ReasonTimeUp == "time up"

\* a game_over message that names the first player of the turn order
GameOverOfFirstPlayer(ge, pl) ==
    [type   |-> "game_over",
     reason |-> ReasonTimeUp,
     loser  |-> IF ge # NilEngine /\ Len(ge.turnOrder) > 0 THEN ge.turnOrder[1]
                ELSE "",
     to     |-> pl]

\* the game_over message of the onExpired callback and the players whose
\* queues broadcastLocked puts it in
GameOverByTimeUp(ge, pl) ==
    [type   |-> "game_over",
     reason |-> ReasonTimeUp,
     loser  |-> IF ge # NilEngine THEN CurrentTurn(ge) ELSE "",
     to     |-> pl]

\* run: tm.onExpired(), then return; the callback takes the room lock,
\* finishes a game that is playing and broadcasts its game_over
DriverExpire(d) ==
    /\ d \in DOMAIN tmDrivers
    /\ tmDrivers[d].pc = "expire"
    /\ tmCaller = "idle"
    /\ status' = IF status = "playing" THEN "finished" ELSE status
    /\ tmDrivers' = [tmDrivers EXCEPT ![d].pc = "done"]
    /\ tmExpired' = [tmExpired EXCEPT ![Len(tmDrivers)] = @ + 1]
    /\ call' = [op |-> "onExpired",
                sent |-> IF status = "playing"
                         THEN <<GameOverByTimeUp(engine, players)>> ELSE <<>>,
                before |-> Snap]
    /\ UNCHANGED <<tmTimeLimit, tmLeft, tmCancel, tmClosed, tmCaller, tmStopped>>
    /\ UNCHANGED <<roomRest, lockVars, lobbyVars, castVars, saved, sweepVars, limitVars>>

\* a player joins the room while Room.StartGame does not hold the room lock
TimedJoin(p) == tmCaller = "idle" /\ Join(p)

\* the current player's word is accepted: Room.ValidateAndSubmitWord, whose
\* applyWordLocked ends with the resetTimer callback (TimerManager.Reset)
TimedWord(w) ==
    /\ tmCaller = "idle"
    /\ status = "playing"
    /\ engine # NilEngine
    /\ Len(engine.history) < MaxHistory
    /\ CurrentTurn(engine) \in players
    /\ LET r == ValidateAndSubmitWord(engine, w, CurrentTurn(engine), FALSE)
       IN  /\ r.result = "OK"
           /\ engine' = r.ge
    /\ tmLeft' = IF tmTimeLimit > 0 THEN tmTimeLimit ELSE tmLeft
    /\ UNCHANGED <<tmTimeLimit, tmCancel, tmClosed, tmDrivers, tmCaller, tmStopped,
                   tmExpired>>
    /\ UNCHANGED <<players, owner, status, settings, pendingVote, timerOn, conn,
                   timeouts, games, votesStarted, joins, handled, voteEnded>>
    /\ UNCHANGED <<lockVars, callVars, lobbyVars, castVars, saved, sweepVars, limitVars>>

NextTimer ==
    \/ GameStop
    \/ EliminationGameOver
    \/ \E t \in 1..MaxTime : GameStart(t)
    \/ StopTimer
    \/ Reset
    \/ \E d \in 1..MaxStarts : DriverSelect(d)
    \/ \E d \in 1..MaxStarts : DriverCancelled(d)
    \/ \E d \in 1..MaxStarts : DriverTick(d)
    \/ \E d \in 1..MaxStarts : DriverDecrement(d)
    \/ \E d \in 1..MaxStarts : DriverNotify(d)
    \/ \E d \in 1..MaxStarts : DriverExpire(d)
    \/ \E p \in Names : TimedJoin(p)
    \/ \E w \in Words : TimedWord(w)

\* the room of SpecTimer, of whose handlers only the join and the accepted
\* word are run
RoomAtRest ==
    /\ RoomCreated
    /\ settings.maxLives = 1
    /\ settings.timeLimit = 1

InitTimer == RoomAtRest /\ TimerIdle /\ OthersIdle

SpecTimer == InitTimer /\ [][NextTimer]_vars

(***************************************************************************)
(* The claims about the timer.                                             *)
(***************************************************************************)
\* C7: once a Stop call has returned, the driver of the preceding Start never
\* again decrements the remaining time and never calls onTick or onExpired,
\* wherever it was when Stop ran
C7_StoppedDriverIsSilent ==
    [][\A d \in tmStopped :
          tmDrivers[d].pc \in {"tick", "notify", "expire"}
          => tmDrivers'[d].pc = tmDrivers[d].pc]_vars

\* C8: for a Start that is not cancelled, onExpired is not called twice
C8_ExpiresOnce ==
    \A e \in DOMAIN tmExpired : e \notin tmStopped => tmExpired[e] <= 1

\* the drivers that will take a further tick
Ticking ==
    {d \in DOMAIN tmDrivers :
        tmDrivers[d].pc = "wait" /\ tmDrivers[d].ch \notin tmClosed}

\* C9: at most one timer driver is active at any time
C9_OneDriver == Cardinality(Ticking) <= 1

\* the onExpired callback has run
Expired == call.op = "onExpired"

\* a step in which the onExpired callback runs
Expires == call' # call /\ call'.op = "onExpired"

\* C24: the onExpired callback that finds the room playing leaves it finished
\* and broadcasts one game_over message with the reason time up and, as the
\* loser, the player whose turn it is; the callback that finds the room not
\* playing changes nothing and sends nothing
C24_ExpiryEndsTheGame ==
    [][Expires =>
          /\ engine' = engine
          /\ players' = players
          /\ pendingVote' = pendingVote
          /\ IF status = "playing"
             THEN /\ status' = "finished"
                  /\ Len(call'.sent) = 1
                  /\ call'.sent[1].type = "game_over"
                  /\ call'.sent[1].reason = ReasonTimeUp
                  /\ call'.sent[1].loser =
                        (IF engine # NilEngine THEN CurrentTurn(engine) ELSE "")
                  /\ call'.sent[1].to = players
             ELSE /\ status' = status
                  /\ call'.sent = <<>>]_vars

\* the timer has expired in a game of two players in which the turn had
\* passed from the owner to the other player
C24_TimeUpOnSecondPlayer ==
    /\ Expired
    /\ call.before.status = "playing"
    /\ Len(call.before.engine.turnOrder) = 2
    /\ call.before.engine.turnIndex = 1
    /\ call.sent[1].loser # owner
    /\ status = "finished"
    /\ engine = call.before.engine
    /\ players = call.before.players

(***************************************************************************)
(* The mutexes (SpecLock): Room.mu, GameEngine.mu, VoteManager.mu and      *)
(* TimerManager.mu.  An operation is the sequence of the Lock and Unlock   *)
(* calls it makes, in the order of the code; a task runs operations, and a *)
(* Lock call waits until the mutex is free (sync.Mutex is not reentrant).  *)
(***************************************************************************)
L(m) == <<"lock", m>>
U(m) == <<"unlock", m>>

\* VoteManager.CastVote with ballots still missing: playerExists(playerName),
\* then countEligibleVotersLocked (playerCount, playerExists(pv.Player)),
\* each callback locking the room
CastVoteLocks ==
    <<L("vote"), L("room"), U("room"), L("room"), U("room"),
      L("room"), U("room"), U("vote")>>

\* Room.StartGame: Timer.Stop, Votes.Clear and Timer.Start under the room lock
StartGameLocks ==
    <<L("room"), L("timer"), U("timer"), L("vote"), U("vote"),
      L("timer"), U("timer"), U("room")>>

\* Room.StartChallengeVote: the status check, Engine.Snapshot, then
\* VoteManager.StartChallengeVote with playerExists(challengerName) and
\* countEligibleVotersLocked
StartChallengeVoteLocks ==
    <<L("room"), U("room"), L("engine"), U("engine"),
      L("vote"), L("room"), U("room"), L("room"), U("room"),
      L("room"), U("room"), U("vote")>>

\* Room.ValidateAndSubmitWord for an accepted word: the status check,
\* HasPendingVote, Engine.ValidateAndSubmitWord (whose resetTimer calls
\* Timer.Reset), syncPlayerState, Votes.Clear
ValidateAndSubmitWordLocks ==
    <<L("room"), U("room"), L("vote"), U("vote"),
      L("engine"), L("timer"), U("timer"), U("engine"),
      L("room"), L("engine"), U("engine"), U("room"),
      L("vote"), U("vote")>>

\* Room.RemovePlayer: Engine.RemovePlayer under the room lock
RemovePlayerLocks == <<L("room"), L("engine"), U("engine"), U("room")>>

Operations ==
    {"CastVote", "StartGame", "StartChallengeVote", "ValidateAndSubmitWord",
     "RemovePlayer"}

LockScript(op) ==
    CASE op = "CastVote" -> CastVoteLocks
      [] op = "StartGame" -> StartGameLocks
      [] op = "StartChallengeVote" -> StartChallengeVoteLocks
      [] op = "ValidateAndSubmitWord" -> ValidateAndSubmitWordLocks
      [] op = "RemovePlayer" -> RemovePlayerLocks
      [] OTHER -> <<>>

\* the next call of task t, <<"none", "">> when its operation has made them all
NextCall(t) ==
    IF task[t].pos < Len(LockScript(task[t].op))
    THEN LockScript(task[t].op)[task[t].pos + 1]
    ELSE <<"none", "">>

BeginOp(t, op) ==
    /\ task[t].op = "none"
    /\ task[t].n < MaxOps
    /\ task' = [task EXCEPT ![t] = [op |-> op, pos |-> 0, n |-> task[t].n + 1]]
    /\ UNCHANGED <<holder, roomVars, timerVars, callVars, lobbyVars, castVars, saved, sweepVars, limitVars>>

\* mu.Lock() returns
Acquire(t) ==
    /\ NextCall(t)[1] = "lock"
    /\ holder[NextCall(t)[2]] = ""
    /\ holder' = [holder EXCEPT ![NextCall(t)[2]] = t]
    /\ task' = [task EXCEPT ![t].pos = @ + 1]
    /\ UNCHANGED <<roomVars, timerVars, callVars, lobbyVars, castVars, saved, sweepVars, limitVars>>

\* mu.Unlock()
Release(t) ==
    /\ NextCall(t)[1] = "unlock"
    /\ holder' = [holder EXCEPT ![NextCall(t)[2]] = ""]
    /\ task' = [task EXCEPT ![t].pos = @ + 1]
    /\ UNCHANGED <<roomVars, timerVars, callVars, lobbyVars, castVars, saved, sweepVars, limitVars>>

EndOp(t) ==
    /\ task[t].op # "none"
    /\ NextCall(t)[1] = "none"
    /\ task' = [task EXCEPT ![t].op = "none", ![t].pos = 0]
    /\ UNCHANGED <<holder, roomVars, timerVars, callVars, lobbyVars, castVars, saved, sweepVars, limitVars>>

NextLock ==
    \/ \E t \in Tasks, op \in Operations : BeginOp(t, op)
    \/ \E t \in Tasks : Acquire(t)
    \/ \E t \in Tasks : Release(t)
    \/ \E t \in Tasks : EndOp(t)

SpecLock == InitTimer /\ [][NextLock]_vars

\* C5: no task acquires the room lock while it holds the lock of the vote
\* manager, the engine or the timer
C5_RoomLockFirst ==
    [][\A t \in Tasks :
          (holder'["room"] = t /\ holder["room"] # t)
          => \A m \in Mutexes \ {"room"} : holder[m] # t]_vars

\* task t is blocked in a Lock of a mutex that task u holds
WaitsFor(t, u) ==
    /\ NextCall(t)[1] = "lock"
    /\ holder[NextCall(t)[2]] = u

\* C35: no two tasks are each blocked in a Lock of a mutex the other holds
C35_NoDeadlock ==
    \A t, u \in Tasks : t # u => ~(WaitsFor(t, u) /\ WaitsFor(u, t))

(***************************************************************************)
(* The operations of a room called one at a time (SpecSeq): each action is *)
(* a whole call of one of the Room's operations, as a handler makes it     *)
(* when no other handler runs, on a room whose game has been started.      *)
(* The settings and the words are chosen so that every check of the        *)
(* validation can fail, alone and together with others.  The players are   *)
(* those who joined before the game was started; they may leave.           *)
(***************************************************************************)
\* genre.go: the word lists by genre label; one list, of one word (tomato)
genreWords == [g \in {"food"} |-> {<<12392, 12414, 12392>>}]

\* the label that stands for no genre ("nashi")
NoGenreLabel == "nashi"

\* isWordInGenre: no genre and an unknown genre accept every word
isWordInGenre(hiraganaWord, genre) ==
    IF genre = "" \/ genre = NoGenreLabel THEN TRUE
    ELSE IF genre \notin DOMAIN genreWords THEN TRUE
    ELSE hiraganaWord \in genreWords[genre]

\* todo (with a dakuten), mato (which does not chain after to) and a Latin letter
WTodo == <<12392, 12393>>
WMato == <<12414, 12392>>
WLatin == <<97>>
SeqWords == Words \cup {WTodo, WMato, WLatin}

\* the rows ta and wa, by the rune of their label
RowsTaWa == {12383, 12431}

\* the settings of the rooms of SpecSeq: no rule; a genre; a minimum length
\* with every rule; a maximum length with every rule
SeqSettings ==
    {[maxLives |-> l, timeLimit |-> 0, minLen |-> s[1], maxLen |-> s[2],
      noDakuten |-> s[3], allowedRows |-> s[4], genre |-> s[5]] :
        l \in {1, 2},
        s \in {<<0, 0, FALSE, {}, "">>,
               <<0, 0, FALSE, {}, "food">>,
               <<3, 0, TRUE, RowsTaWa, "food">>,
               <<0, 2, TRUE, RowsTaWa, "food">>}}

\* a room whose owner has started the game, with no word played yet
GameStarted ==
    /\ players \in {S \in SUBSET Names : Creator \in S}
    /\ owner = Creator
    /\ status = "playing"
    /\ settings \in SeqSettings
    /\ \E rest \in Orders(players \ {owner}) :
          engine = NewGameEngine(settings, <<owner>> \o rest)
    /\ pendingVote = NoVote
    /\ timerOn = FALSE
    /\ conn = [n \in Names |-> IdleConn]
    /\ timeouts = {}
    /\ games = 1
    /\ votesStarted = 0
    /\ joins = Cardinality(players) - 1
    /\ handled = 1
    /\ voteEnded = {}

InitSeq == GameStarted /\ TimerIdle /\ OthersIdle

\* an applyVoteResult without the early return for an accepted challenge
AfterResolutionAlwaysReverting(r) ==
    LET reverts == r.resolved /\ r.result.type # "genre" /\ engine # NilEngine
        ge == IF reverts THEN RevertWord(engine, r.result.word, r.result.player)
              ELSE engine
        over == reverts /\ EndsGame(ge, r.result.player)
    IN  [engine |-> ge,
         status |-> IF over THEN "finished" ELSE status,
         pendingVote |-> IF over THEN NoVote ELSE r.pv,
         timerOn |-> IF over THEN FALSE ELSE timerOn]

\* the room after a resolution res has been applied to it: Room.applyVoteResult,
\* then the elimination check of Server.broadcastVoteResult
AfterResolution(r) ==
    LET reverts == r.resolved /\ r.result.reverted /\ engine # NilEngine
        ge == IF reverts THEN RevertWord(engine, r.result.word, r.result.player)
              ELSE engine
        over == reverts /\ EndsGame(ge, r.result.player)
    IN  [engine |-> ge,
         status |-> IF over THEN "finished" ELSE status,
         pendingVote |-> IF over THEN NoVote ELSE r.pv,
         timerOn |-> IF over THEN FALSE ELSE timerOn]

\* Server.handleAnswer: Room.ValidateAndSubmitWord, then for a penalty the
\* elimination check
SeqSubmit(p, w) ==
    /\ MayBegin(p)
    /\ status = "playing"
    /\ engine # NilEngine
    /\ LET pend == HasPendingVote(pendingVote)
           r == ValidateAndSubmitWord(engine, w, p, pend)
           over == r.result = "Penalty" /\ EndsGame(r.ge, p)
       IN  /\ r.result = "OK" => Len(engine.history) < MaxHistory
           /\ engine' = r.ge
           /\ pendingVote' = IF r.result = "OK" \/ over THEN NoVote ELSE pendingVote
           /\ status' = IF over THEN "finished" ELSE status
           /\ timerOn' = IF over THEN FALSE ELSE timerOn
           /\ call' = [op |-> "submit", player |-> p, word |-> w, pend |-> pend,
                       result |-> r.result, before |-> Snap]
    /\ handled' = handled + 1
    /\ UNCHANGED <<players, owner, settings, conn, timeouts, games, votesStarted,
                   joins, voteEnded>>
    /\ UNCHANGED <<timerVars, lockVars, lobbyVars, castVars, saved, sweepVars, limitVars>>

\* Server.handleChallenge: Room.StartChallengeVote and, when it succeeds, the
\* timeout goroutine
SeqChallenge(p) ==
    /\ handled < MaxMessages
    /\ LET fails == \/ status # "playing"
                    \/ engine = NilEngine
                    \/ Len(engine.history) = 0
                    \/ StartChallengeVoteFails(pendingVote, p,
                           engine.history[Len(engine.history)], players)
       IN  /\ IF fails
              THEN UNCHANGED <<pendingVote, timeouts, votesStarted>>
              ELSE /\ votesStarted < MaxVotes
                   /\ votesStarted' = votesStarted + 1
                   /\ pendingVote' = NewChallengeVote(votesStarted + 1, p,
                                         engine.history[Len(engine.history)])
                   /\ timeouts' = timeouts \cup
                                     {[vote |-> votesStarted + 1, pc |-> "sleep"]}
           /\ call' = [op |-> "challenge", player |-> p, ok |-> ~fails,
                       before |-> Snap]
    /\ handled' = handled + 1
    /\ UNCHANGED <<players, owner, status, settings, engine, timerOn, conn, games,
                   joins, voteEnded>>
    /\ UNCHANGED <<timerVars, lockVars, lobbyVars, castVars, saved, sweepVars, limitVars>>

\* Server.handleVote: Room.CastVote and Server.broadcastVoteResult
SeqVote(p, accept) ==
    /\ handled < MaxMessages
    /\ LET r == CastVote(pendingVote, p, accept, players)
           a == AfterResolution(r)
       IN  /\ engine' = a.engine
           /\ status' = a.status
           /\ pendingVote' = a.pendingVote
           /\ timerOn' = a.timerOn
           /\ voteEnded' = IF r.resolved THEN voteEnded \cup {r.result.vote}
                           ELSE voteEnded
           /\ call' = [op |-> "vote", player |-> p, accept |-> accept,
                       resolved |-> r.resolved, result |-> r.result,
                       before |-> Snap]
    /\ handled' = handled + 1
    /\ UNCHANGED <<players, owner, settings, conn, timeouts, games, votesStarted,
                   joins>>
    /\ UNCHANGED <<timerVars, lockVars, lobbyVars, castVars, saved, sweepVars, limitVars>>

\* the timeout goroutine spawned for vote v: Room.ForceResolveVote and
\* Server.broadcastVoteResult
SeqTimeout(v) ==
    /\ [vote |-> v, pc |-> "sleep"] \in timeouts
    /\ timeouts' = timeouts \ {[vote |-> v, pc |-> "sleep"]}
    /\ LET r == ForceResolveVote(pendingVote, players)
           a == AfterResolution(r)
       IN  /\ engine' = a.engine
           /\ status' = a.status
           /\ pendingVote' = a.pendingVote
           /\ timerOn' = a.timerOn
           /\ call' = [op |-> "timeout", task |-> v,
                       resolved |-> r.resolved, result |-> r.result,
                       before |-> Snap]
    /\ UNCHANGED <<players, owner, settings, conn, games, votesStarted, joins,
                   handled, voteEnded>>
    /\ UNCHANGED <<timerVars, lockVars, lobbyVars, castVars, saved, sweepVars, limitVars>>

\* Server.handleWithdrawChallenge: Room.WithdrawChallenge
SeqWithdraw(p) ==
    /\ handled < MaxMessages
    /\ LET ok == WithdrawChallengeOK(pendingVote, p)
       IN  /\ pendingVote' = IF ok THEN NoVote ELSE pendingVote
           /\ voteEnded' = IF ok THEN voteEnded \cup {pendingVote.id} ELSE voteEnded
           /\ call' = [op |-> "withdraw", player |-> p, ok |-> ok, before |-> Snap]
    /\ handled' = handled + 1
    /\ UNCHANGED <<players, owner, status, settings, engine, timerOn, conn,
                   timeouts, games, votesStarted, joins>>
    /\ UNCHANGED <<timerVars, lockVars, lobbyVars, castVars, saved, sweepVars, limitVars>>

\* leaveCurrentRoom and Room.RemovePlayer
SeqLeave(p) ==
    /\ MayBegin(p)
    /\ players' = players \ {p}
    /\ engine' = IF engine # NilEngine THEN EngineRemovePlayer(engine, p) ELSE engine
    /\ timerOn' = IF players' = {} THEN FALSE ELSE timerOn
    /\ call' = [op |-> "leave", player |-> p, before |-> Snap]
    /\ handled' = handled + 1
    /\ UNCHANGED <<owner, status, settings, pendingVote, conn, timeouts,
                   games, votesStarted, joins, voteEnded>>
    /\ UNCHANGED <<timerVars, lockVars, lobbyVars, castVars, saved, sweepVars, limitVars>>

NextSeq ==
    \/ \E p \in Names : SeqLeave(p)
    \/ \E p \in Names, w \in SeqWords : SeqSubmit(p, w)
    \/ \E p \in Names : SeqChallenge(p)
    \/ \E p \in Names, a \in BOOLEAN : SeqVote(p, a)
    \/ \E v \in 1..MaxVotes : SeqTimeout(v)
    \/ \E p \in Names : SeqWithdraw(p)

SpecSeq == InitSeq /\ [][NextSeq]_vars

(***************************************************************************)
(* The claims about the calls.                                             *)
(***************************************************************************)
\* the last call resolved a vote
Resolved == call.op \in {"vote", "timeout"} /\ call.resolved

\* the last call resolved a challenge vote as accepted
ResolvedAccepted ==
    Resolved /\ call.result.type = "challenge" /\ call.result.accepted

\* C11: when a challenge vote resolves as accepted the resolution leaves the
\* game state as it was: the engine (scores, lives, history, usedWords,
\* currentWord, turn) and the status are those of before the call, the
\* challenged word is still the last of the history and the current word, the
\* vote is cleared and no revert follows
C11_AcceptedChallengeKeepsState ==
    ResolvedAccepted =>
        /\ engine = call.before.engine
        /\ status = call.before.status
        /\ pendingVote = NoVote
        /\ Len(engine.history) > 0
        /\ engine.history[Len(engine.history)] = call.result.entry
        /\ engine.currentWord = call.result.word
        /\ toHiragana(call.result.word) \in engine.usedWords

\* a challenge resolved as accepted by the last ballot to come in,
\* for a word whose submitter is still in the game with the point it earned
C11_AcceptedByBallot ==
    /\ ResolvedAccepted
    /\ call.op = "vote"
    /\ call.result.player \in DOMAIN engine.players
    /\ engine.players[call.result.player] = call.result.entry.after

\* the vote as the last call resolved or left it: the vote the call found,
\* with the ballot of a CastVote that recorded one
Recorded ==
    call.op = "vote"
    /\ HasPendingVote(call.before.pendingVote)
    /\ call.player \in call.before.players
    /\ ~(call.before.pendingVote.type = "challenge"
         /\ call.before.pendingVote.player = call.player)

VoteTallied ==
    LET pv == call.before.pendingVote
    IN  IF Recorded
        THEN [pv EXCEPT !.votes = [v \in DOMAIN pv.votes \cup {call.player} |->
                                     IF v = call.player THEN call.accept
                                     ELSE pv.votes[v]]]
        ELSE pv

\* the players who may vote, and those of them who have not
EligibleVoters(pv, pl) == IF pv.type = "challenge" THEN pl \ {pv.player} ELSE pl

NotVoted(pv, pl) == EligibleVoters(pv, pl) \ DOMAIN pv.votes

Ballots(pv, b) == {v \in DOMAIN pv.votes : pv.votes[v] = b}

\* C12: a vote resolves as accepted if and only if its accept ballots are
\* strictly more than its reject ballots plus the eligible voters who have not
\* voted when it resolves (so a tie is not accepted)
C12_StrictMajority ==
    Resolved =>
        (call.result.accepted <=>
            Cardinality(Ballots(VoteTallied, TRUE)) >
                Cardinality(Ballots(VoteTallied, FALSE))
                  + Cardinality(NotVoted(VoteTallied, call.before.players)))

\* C13: after CastVote has recorded a ballot, the vote is resolved exactly when
\* the number of recorded ballots equals the number of eligible voters (the
\* players in the room, less the challenged player for a challenge vote), and
\* stays pending, with the ballot in it, otherwise
C13_ResolvesWhenAllVoted ==
    Recorded =>
        LET complete == Cardinality(DOMAIN VoteTallied.votes)
                          = Cardinality(EligibleVoters(VoteTallied, call.before.players))
        IN  /\ call.resolved <=> complete
            /\ ~call.resolved => pendingVote = VoteTallied

\* the last call is a CastVote by the player whose word is challenged
ChallengedPlayerVoted ==
    /\ call.op = "vote"
    /\ HasPendingVote(call.before.pendingVote)
    /\ call.before.pendingVote.type = "challenge"
    /\ call.before.pendingVote.player = call.player

\* C14: the challenged player is never among the voters of a challenge vote,
\* and a CastVote by the challenged player records nothing and resolves nothing
C14_ChallengedPlayerHasNoBallot ==
    /\ (pendingVote # NoVote /\ pendingVote.type = "challenge")
          => pendingVote.player \notin DOMAIN pendingVote.votes
    /\ ChallengedPlayerVoted =>
          /\ ~call.resolved
          /\ pendingVote = call.before.pendingVote
          /\ engine = call.before.engine
          /\ status = call.before.status

\* the challenged player, in the room, has tried to vote on the own word
C14_ChallengedPlayerTried ==
    ChallengedPlayerVoted /\ call.player \in players /\ call.accept

\* C16: WithdrawChallenge(name) succeeds only when the room has an unresolved
\* challenge vote whose challenger is name; when it succeeds the vote is
\* cleared and the game state (engine and status) is unchanged; when it does
\* not, nothing changes
C16_WithdrawOnlyByChallenger ==
    call.op = "withdraw" =>
        /\ call.ok <=> (/\ HasPendingVote(call.before.pendingVote)
                        /\ call.before.pendingVote.type = "challenge"
                        /\ call.before.pendingVote.challenger = call.player)
        /\ engine = call.before.engine
        /\ status = call.before.status
        /\ players = call.before.players
        /\ pendingVote = IF call.ok THEN NoVote ELSE call.before.pendingVote

\* a challenger has withdrawn the challenge of a word that stays played
C16_Withdrawn ==
    /\ call.op = "withdraw"
    /\ call.ok
    /\ Len(engine.history) > 0
    /\ engine.history[Len(engine.history)] = call.before.pendingVote.entry

\* the last call is a submission; the engine it found, the hiragana of its word
Submitted == call.op = "submit"

\* the checks of a submission in the order of the specification, 1 to 11: the
\* check k fails for the last submission
Fails(k) ==
    LET ge == call.before.engine
        p == call.player
        h == toHiragana(call.word)
    IN  CASE k = 1 -> call.pend
          [] k = 2 -> CurrentTurn(ge) # p
          [] k = 3 -> p \in DOMAIN ge.players /\ ge.players[p].lives <= 0
          [] k = 4 -> ~isJapanese(call.word)
          [] k = 5 -> \/ ge.settings.minLen > 0 /\ Len(h) < ge.settings.minLen
                      \/ ge.settings.maxLen > 0 /\ Len(h) > ge.settings.maxLen
          [] k = 6 -> /\ ge.currentWord # <<>>
                      /\ getFirstChar(h) # getLastChar(toHiragana(ge.currentWord))
          [] k = 7 -> h \in ge.usedWords
          [] k = 8 -> Len(h) > 0 /\ h[Len(h)] = RuneN
          [] k = 9 -> ge.settings.noDakuten /\ Range(h) \cap (dakutenSet \cup handakutenSet) # {}
          [] k = 10 -> /\ ge.settings.allowedRows # {}
                       /\ \E j \in 1..Len(h) :
                             /\ ~isLongVowelMark(h[j])
                             /\ GetKanaRow(h[j]) # 0
                             /\ GetKanaRow(h[j]) \notin ge.settings.allowedRows
          [] k = 11 -> ~isWordInGenre(h, ge.settings.genre)

Failing == {k \in 1..11 : Fails(k)}

FirstFailing == CHOOSE k \in Failing : \A j \in Failing : k <= j

\* the outcome the failure of check k stands for
OutcomeOf(k) ==
    IF k <= 6 THEN "Rejected"
    ELSE IF k <= 10 THEN "Penalty"
    ELSE IF Cardinality(call.before.players) >= 2 THEN "Vote" ELSE "Rejected"

\* the last submission was applied: its word is the last of the history
Applied ==
    /\ Len(engine.history) = Len(call.before.engine.history) + 1
    /\ engine.history[Len(engine.history)].word = call.word
    /\ engine.history[Len(engine.history)].player = call.player
    /\ engine.currentWord = call.word

\* C17: the outcome of a submission is that of the first failing check, in the
\* order vote pending, turn, eliminated, kana, length, chaining, used, ends
\* with n, dakuten, rows, genre; a word that fails no check is applied
C17_FirstFailureDecides ==
    Submitted =>
        IF Failing = {}
        THEN call.result = "OK" /\ Applied
        ELSE call.result = OutcomeOf(FirstFailing) /\ ~Applied

C19_GenreMissNotApplied ==
    (Submitted /\ Failing = {11}) =>
        /\ call.result = OutcomeOf(11)
        /\ engine = call.before.engine

\* the index (from 0) of the turn after the player at index s has played: the
\* first player after s, in cyclic order, who is alive, s itself if none is
NextAliveAfter(ge, s) ==
    LET n == Len(ge.turnOrder)
        steps == {k \in 1..(n - 1) : Alive(ge, ge.turnOrder[((s + k) % n) + 1])}
    IN  IF steps = {} THEN s
        ELSE (s + (CHOOSE k \in steps : \A j \in steps : k <= j)) % n

\* C20: after a word is applied the turn is with the first player after the
\* submitter, in the cyclic turn order, whose lives are above 0; if there is
\* none it is back at the submitter's index
C20_TurnGoesToNextAlive ==
    (Submitted /\ call.result = "OK") =>
        /\ CurrentTurn(call.before.engine) = call.player
        /\ engine.turnOrder = call.before.engine.turnOrder
        /\ engine.turnIndex = NextAliveAfter(engine, call.before.engine.turnIndex)

\* a word applied with an eliminated player in the turn order, whom the scan
\* passes over before it returns to the submitter
C20_SkippedEliminated ==
    /\ Submitted
    /\ call.result = "OK"
    /\ Len(engine.turnOrder) >= 2
    /\ \E n \in Range(engine.turnOrder) : ~Alive(engine, n)
    /\ engine.turnIndex = call.before.engine.turnIndex

(***************************************************************************)
(* Further claims about the room and the handlers of its connections       *)
(* (Spec).                                                                 *)
(***************************************************************************)
\* a handler's StartChallengeVote returns in this step, with or without a vote
ChallengeReturns(p) == conn[p].pc = "challenge" /\ conn'[p].pc = "idle"

\* C15: StartChallengeVote creates a vote only for a room that is playing, has
\* no unresolved vote and has a history whose last word was submitted by
\* somebody other than the challenger, the challenger being in the room; a
\* call that creates no vote leaves the vote of the room as it is
C15_ChallengeRefused ==
    [][\A p \in Names : ChallengeReturns(p) =>
          IF votesStarted' # votesStarted
          THEN /\ status = "playing"
               /\ ~HasPendingVote(pendingVote)
               /\ p \in players
               /\ engine # NilEngine
               /\ Len(engine.history) > 0
               /\ engine.history[Len(engine.history)].player # p
          ELSE pendingVote' = pendingVote]_vars

C23_OwnerIsAPlayer ==
    (status = "waiting" /\ players # {}) => owner \in players

\* C40 (SpecSeq): at every resolution of a vote the number of missing voters
\* that is added to the reject count is not negative, and the accept count
\* plus the reject count is the number of the eligible voters
C40_TallyMatchesEligibleVoters ==
    Resolved =>
        LET t == Tally(VoteTallied, call.before.players)
        IN  /\ t.missing >= 0
            /\ t.acceptCount + t.rejectCount = t.eligibleVoters

\* the game state of two engines is the same: history, usedWords,
\* currentWord, the scores and lives of the players in both, and the turn
\* where the turn order is the same
SameGameState(a, b) ==
    /\ a.history = b.history
    /\ a.usedWords = b.usedWords
    /\ a.currentWord = b.currentWord
    /\ \A n \in DOMAIN a.players \cap DOMAIN b.players : a.players[n] = b.players[n]
    /\ a.turnOrder = b.turnOrder => a.turnIndex = b.turnIndex

\* C36 (Spec): while the status stays finished no step changes the game state
C36_FinishedGameIsFrozen ==
    [][(status = "finished" /\ status' = "finished")
          => SameGameState(engine, engine')]_vars

\* C31: a game started once saves at most one result (and broadcasts at most
\* one game_over), however it ends and whatever runs beside its ending
C31_OneResultPerGame == saved <= 1

\* a second result of the same game has been saved
C31_SecondResult == saved = 2

(***************************************************************************)
(* The engine of a started game called one operation at a time             *)
(* (SpecEngine): AddPlayer, RemovePlayer, ValidateAndSubmitWord (accepted  *)
(* words and penalties) and RevertWord, each under the engine's mutex, in  *)
(* any order.  The room's other fields stay as StartGame left them.        *)
(***************************************************************************)
\* what every operation of the engine leaves alone
EngineFrame ==
    /\ UNCHANGED <<players, owner, status, settings, pendingVote, timerOn, conn,
                   timeouts, games, votesStarted, joins, voteEnded>>
    /\ UNCHANGED <<timerVars, lockVars, lobbyVars, castVars, saved, sweepVars, limitVars>>

\* GameEngine.AddPlayer for a player who joins mid-game
EngAddPlayer(p) ==
    /\ handled < MaxMessages
    /\ p \notin DOMAIN engine.players
    /\ engine' = EngineAddPlayer(engine, p)
    /\ call' = [op |-> "AddPlayer", player |-> p, was |-> engine]
    /\ handled' = handled + 1
    /\ EngineFrame

\* GameEngine.RemovePlayer, of a player of the game or of any other name
EngRemovePlayer(p) ==
    /\ handled < MaxMessages
    /\ engine' = EngineRemovePlayer(engine, p)
    /\ call' = [op |-> "RemovePlayer", player |-> p, was |-> engine]
    /\ handled' = handled + 1
    /\ EngineFrame

\* GameEngine.ValidateAndSubmitWord with no vote pending
EngSubmit(p, w) ==
    /\ handled < MaxMessages
    /\ LET r == ValidateAndSubmitWord(engine, w, p, FALSE)
       IN  /\ r.result = "OK" => Len(engine.history) < MaxHistory
           /\ engine' = r.ge
           /\ call' = [op |-> "Submit", player |-> p, result |-> r.result,
                       was |-> engine]
    /\ handled' = handled + 1
    /\ EngineFrame

\* GameEngine.RevertWord for the i-th word of the history: the last one, or
\* an earlier one when the vote was started before the words that follow it
EngRevert(i) ==
    /\ handled < MaxMessages
    /\ i \in 1..Len(engine.history)
    /\ engine' = RevertWord(engine, engine.history[i].word, engine.history[i].player)
    /\ call' = [op |-> "RevertWord", player |-> engine.history[i].player,
                was |-> engine]
    /\ handled' = handled + 1
    /\ EngineFrame

NextEngine ==
    \/ \E p \in Names : EngAddPlayer(p)
    \/ \E p \in Names : EngRemovePlayer(p)
    \/ \E p \in Names, w \in SeqWords : EngSubmit(p, w)
    \/ \E i \in 1..MaxHistory : EngRevert(i)

SpecEngine == InitSeq /\ [][NextEngine]_vars

(***************************************************************************)
(* The claims about the engine's operations.                               *)
(***************************************************************************)
\* C21 as the specification states it: the turn index is below the length of
\* the turn order in every state of the engine
C21_TurnIndexBelowLength == engine.turnIndex < Len(engine.turnOrder)

\* a RemovePlayer that removed a player from the turn order
RemovedFromOrder ==
    /\ call.op = "RemovePlayer"
    /\ Len(engine.turnOrder) < Len(call.was.turnOrder)

\* C21: the turn index is below the length of the turn order whenever the turn
\* order is not empty, after every AddPlayer, RemovePlayer, accepted word,
\* penalty and revert; it is 0 when the turn order is empty; and a
\* RemovePlayer after which the old index is out of range leaves the index 0
C21_TurnIndexInRange ==
    /\ engine.turnIndex >= 0
    /\ IF Len(engine.turnOrder) = 0
       THEN engine.turnIndex = 0
       ELSE engine.turnIndex < Len(engine.turnOrder)
    /\ (RemovedFromOrder /\ call.was.turnIndex >= Len(engine.turnOrder))
           => engine.turnIndex = 0

\* a player has been removed whose removal left the old turn index beyond the
\* end of a turn order that is not empty, and the index is 0
C21_IndexReset ==
    /\ RemovedFromOrder
    /\ Len(engine.turnOrder) > 0
    /\ call.was.turnIndex >= Len(engine.turnOrder)
    /\ engine.turnIndex = 0

\* C37: a RemovePlayer of a player whose turn it is not leaves the turn with
\* the player whose turn it was
C37_RemovalKeepsTurn ==
    (call.op = "RemovePlayer" /\ call.player # CurrentTurn(call.was))
        => CurrentTurn(engine) = CurrentTurn(call.was)

(***************************************************************************)
(* The room manager and the handlers of create_room, join and leave_room   *)
(* (SpecLobby).  A handler is cut where the code releases every lock       *)
(* between two accesses to the rooms, the name index or a Send channel;    *)
(* the broadcasts to the other players are left out (SpecCast has them).   *)
(* The read loop of a connection is at one of                              *)
(*   "idle"        before the next message                                 *)
(*   "leave"       leaveCurrentRoom: about to call Room.RemovePlayer       *)
(*   "untrack"     about to call RoomManager.UntrackPlayer                 *)
(*   "stamp"       the room was left empty: about to set EmptySince        *)
(*   "getroom"     handleJoinRoom: about to call RoomManager.GetRoom       *)
(*   "check"       about to check the name and the number of players       *)
(*   "createroom"  handleCreateRoom: about to call RoomManager.CreateRoom  *)
(*   "add"         about to call Room.AddPlayer                            *)
(*   "state"       about to send room_joined on the new Send channel       *)
(*   "track"       about to call RoomManager.TrackPlayer                   *)
(*   "gone"        the connection is closed                                *)
(* A panic of the read loop runs its deferred leaveCurrentRoom.            *)
(***************************************************************************)
\* the messages the connections take up
MaxLobbyMsgs == 4

defaultMaxPlayers == 8

\* the values of Settings.MaxPlayers the creators choose: the default, and 1
MaxPlayersChoices == {0, 1}

\* Room.MaxPlayersLimit
MaxPlayersLimit(r) ==
    IF room[r].maxPlayers > 0 THEN room[r].maxPlayers ELSE defaultMaxPlayers

\* what the handlers of the lobby leave alone
LobbyFrame == UNCHANGED <<roomVars, timerVars, lockVars, callVars, castVars, saved, sweepVars, limitVars>>

\* the read loop may take up its next message
MayRead(c) == wsc[c].pc = "idle" /\ lobbyMsgs < MaxLobbyMsgs

\* the read loop may take up its next message: ReadJSON returns one
MayTake(c) == MayRead(c) /\ wsc[c].conn = "open"

\* the check handleJoin and handleCreateRoom make in the name index: the name
\* is in a room, and not through this connection
NameTaken(c, name) ==
    /\ playerRoom[name] # ""
    /\ \/ wsc[c].playerName # name
       \/ wsc[c].currentRoom = ""
       \/ wsc[c].currentRoom # playerRoom[name]

\* the WSConn once the handler has returned
Returned(w) == [w EXCEPT !.pc = "idle", !.op = "", !.name = "", !.target = "",
                         !.remaining = 0, !.from = NoMembership]

\* a send or a close on a closed channel: the read loop panics and its
\* deferred leaveCurrentRoom runs
Panics(c, what) ==
    /\ faults' = faults \cup {what}
    /\ wsc' = [wsc EXCEPT ![c] = [@ EXCEPT !.pc = "leave", !.op = "gone"]]

\* WSConn.sendToPlayer: a send on the Send channel of currentPlayer
SendsToPlayer(c) ==
    IF wsc[c].currentPlayer /\ sendCh[c] = "closed"
    THEN Panics(c, "send on closed channel")
    ELSE UNCHANGED <<wsc, faults>>

\* where leaveCurrentRoom returns to
AfterLeave(w) ==
    LET left == [w EXCEPT !.currentRoom = "", !.currentPlayer = FALSE]
    IN  CASE w.op = "join"   -> [left EXCEPT !.pc = "getroom"]
          [] w.op = "create" -> [left EXCEPT !.pc = "createroom"]
          [] w.op = "gone"   -> [Returned(left) EXCEPT !.pc = "gone"]
          [] OTHER           -> Returned(left)

\* WSConn.handleJoin up to leaveCurrentRoom: the check of the name index
\* (clients name the ids generateRoomID has given out, of rooms that are
\* still there or were swept)
JoinBegin(c, name, rid) ==
    /\ MayTake(c)
    /\ room[rid].made
    /\ lobbyMsgs' = lobbyMsgs + 1
    /\ IF NameTaken(c, name)
       THEN SendsToPlayer(c)
       ELSE /\ wsc' = [wsc EXCEPT ![c] =
                       [@ EXCEPT !.pc = "leave", !.op = "join",
                                 !.name = name, !.target = rid,
                                 !.from = [room |-> wsc[c].currentRoom,
                                           name |-> wsc[c].playerName]]]
            /\ UNCHANGED faults
    /\ UNCHANGED <<rmRooms, room, playerRoom, sendCh>>
    /\ LobbyFrame

\* the handlers that are about to create a room
Creating ==
    {d \in Conns : wsc[d].op = "create"
                   /\ wsc[d].pc \in {"leave", "untrack", "stamp", "createroom"}}

\* WSConn.handleCreateRoom up to leaveCurrentRoom (while room ids are left)
CreateBegin(c, name) ==
    /\ MayTake(c)
    /\ Cardinality({r \in RoomIds : room[r].made}) + Cardinality(Creating)
          < Cardinality(RoomIds)
    /\ lobbyMsgs' = lobbyMsgs + 1
    /\ IF NameTaken(c, name)
       THEN SendsToPlayer(c)
       ELSE /\ wsc' = [wsc EXCEPT ![c] = [@ EXCEPT !.pc = "leave", !.op = "create",
                                                  !.name = name]]
            /\ UNCHANGED faults
    /\ UNCHANGED <<rmRooms, room, playerRoom, sendCh>>
    /\ LobbyFrame

\* WSConn.handleLeaveRoom, of a connection that is in a room
LeaveBegin(c) ==
    /\ MayTake(c)
    /\ wsc[c].currentRoom # ""
    /\ lobbyMsgs' = lobbyMsgs + 1
    /\ wsc' = [wsc EXCEPT ![c] = [@ EXCEPT !.pc = "leave", !.op = "leave"]]
    /\ UNCHANGED <<rmRooms, room, playerRoom, sendCh, faults>>
    /\ LobbyFrame

\* the read fails (the client has gone, or the websocket was closed):
\* readLoop's deferred leaveCurrentRoom
Disconnect(c) ==
    /\ MayRead(c)
    /\ lobbyMsgs' = lobbyMsgs + 1
    /\ wsc' = [wsc EXCEPT ![c] = [@ EXCEPT !.pc = "leave", !.op = "gone"]]
    /\ UNCHANGED <<rmRooms, room, playerRoom, sendCh, faults>>
    /\ LobbyFrame

\* WSConn.handlePing of a connection with a player: sendMsg, sendToPlayer
Ping(c) ==
    /\ MayTake(c)
    /\ wsc[c].currentPlayer
    /\ lobbyMsgs' = lobbyMsgs + 1
    /\ SendsToPlayer(c)
    /\ UNCHANGED <<rmRooms, room, playerRoom, sendCh>>
    /\ LobbyFrame

\* leaveCurrentRoom: its test, then Room.RemovePlayer, which closes the Send
\* channel of the Player it finds under the name and deletes the entry
LeaveRemove(c) ==
    /\ wsc[c].pc = "leave"
    /\ LET w == wsc[c]
           r == w.currentRoom
           n == w.playerName
       IN  IF r = "" \/ n = ""
           THEN /\ wsc' = [wsc EXCEPT ![c] = AfterLeave(w)]
                /\ UNCHANGED <<room, sendCh, faults>>
           ELSE IF n \in DOMAIN room[r].members
           THEN LET o == room[r].members[n]
                    rest == [m \in DOMAIN room[r].members \ {n} |->
                               room[r].members[m]]
                IN  IF sendCh[o] = "closed"
                    THEN /\ Panics(c, "close of closed channel")
                         /\ UNCHANGED <<room, sendCh>>
                    ELSE /\ sendCh' = [sendCh EXCEPT ![o] = "closed"]
                         /\ room' = [room EXCEPT ![r].members = rest]
                         /\ wsc' = [wsc EXCEPT ![c] =
                               [@ EXCEPT !.pc = "untrack",
                                         !.remaining = Cardinality(DOMAIN rest)]]
                         /\ UNCHANGED faults
           ELSE /\ wsc' = [wsc EXCEPT ![c] =
                      [@ EXCEPT !.pc = "untrack",
                                !.remaining = Cardinality(DOMAIN room[r].members)]]
                /\ UNCHANGED <<room, sendCh, faults>>
    /\ UNCHANGED <<rmRooms, playerRoom, lobbyMsgs>>
    /\ LobbyFrame

\* leaveCurrentRoom: RoomManager.UntrackPlayer
LeaveUntrack(c) ==
    /\ wsc[c].pc = "untrack"
    /\ playerRoom' = [playerRoom EXCEPT ![wsc[c].playerName] = ""]
    /\ wsc' = [wsc EXCEPT ![c] = IF @.remaining = 0
                                 THEN [@ EXCEPT !.pc = "stamp"]
                                 ELSE AfterLeave(@)]
    /\ UNCHANGED <<rmRooms, room, sendCh, faults, lobbyMsgs>>
    /\ LobbyFrame

\* leaveCurrentRoom after the last player: EmptySince = &now
LeaveStamp(c) ==
    /\ wsc[c].pc = "stamp"
    /\ room' = [room EXCEPT ![wsc[c].currentRoom].emptySince = TRUE]
    /\ wsc' = [wsc EXCEPT ![c] = AfterLeave(@)]
    /\ UNCHANGED <<rmRooms, playerRoom, sendCh, faults, lobbyMsgs>>
    /\ LobbyFrame

\* handleJoin: playerName = msg.Name; handleJoinRoom: RoomManager.GetRoom
JoinGetRoom(c) ==
    /\ wsc[c].pc = "getroom"
    /\ LET named == [wsc[c] EXCEPT !.playerName = wsc[c].name]
       IN  wsc' = [wsc EXCEPT ![c] = IF named.target \in rmRooms
                                     THEN [named EXCEPT !.pc = "check"]
                                     ELSE Returned(named)]
    /\ UNCHANGED <<rmRooms, room, playerRoom, sendCh, faults, lobbyMsgs>>
    /\ LobbyFrame

\* handleJoinRoom refuses the join: the name is in the room, or the room is full
JoinRefused(r, name) ==
    \/ name \in DOMAIN room[r].members
    \/ Cardinality(DOMAIN room[r].members) >= MaxPlayersLimit(r)

\* handleJoinRoom: the checks under the room lock, which is then released
JoinCheck(c) ==
    /\ wsc[c].pc = "check"
    /\ wsc' = [wsc EXCEPT ![c] = IF JoinRefused(@.target, @.name)
                                 THEN Returned(@)
                                 ELSE [@ EXCEPT !.pc = "add"]]
    /\ UNCHANGED <<rmRooms, room, playerRoom, sendCh, faults, lobbyMsgs>>
    /\ LobbyFrame

\* handleCreateRoom: playerName = msg.Name; RoomManager.CreateRoom with the id
\* generateRoomID gives out and the settings of the message
CreateRoom(c, mp) ==
    /\ wsc[c].pc = "createroom"
    /\ LET rid == IF ~room["r1"].made THEN "r1" ELSE "r2"
       IN  /\ ~room[rid].made
           /\ rmRooms' = rmRooms \cup {rid}
           /\ room' = [room EXCEPT ![rid] =
                          [made |-> TRUE, members |-> NoPlayers,
                           emptySince |-> FALSE, maxPlayers |-> mp]]
           /\ wsc' = [wsc EXCEPT ![c] = [@ EXCEPT !.playerName = wsc[c].name,
                                                  !.target = rid, !.pc = "add"]]
    /\ UNCHANGED <<playerRoom, sendCh, faults, lobbyMsgs>>
    /\ LobbyFrame

\* the new Player with its Send channel, and Room.AddPlayer
AddPlayer(c) ==
    /\ wsc[c].pc = "add"
    /\ LET r == wsc[c].target
           n == wsc[c].name
       IN  room' = [room EXCEPT
                      ![r].members = [m \in DOMAIN @ \cup {n} |->
                                         IF m = n THEN c ELSE @[m]],
                      ![r].emptySince = FALSE]
    /\ sendCh' = [sendCh EXCEPT ![c] = "open"]
    /\ wsc' = [wsc EXCEPT ![c].pc = "state"]
    /\ UNCHANGED <<rmRooms, playerRoom, faults, lobbyMsgs>>
    /\ LobbyFrame

\* player.Send <- room_joined, outside every lock
SendState(c) ==
    /\ wsc[c].pc = "state"
    /\ IF sendCh[c] = "closed"
       THEN Panics(c, "send on closed channel")
       ELSE /\ wsc' = [wsc EXCEPT ![c].pc = "track"]
            /\ UNCHANGED faults
    /\ UNCHANGED <<rmRooms, room, playerRoom, sendCh, lobbyMsgs>>
    /\ LobbyFrame

\* currentRoom and currentPlayer are set; RoomManager.TrackPlayer; go
\* writePump on the new Player's Send channel
Track(c) ==
    /\ wsc[c].pc = "track"
    /\ playerRoom' = [playerRoom EXCEPT ![wsc[c].name] = wsc[c].target]
    /\ wsc' = [wsc EXCEPT ![c] = Returned([@ EXCEPT !.currentRoom = wsc[c].target,
                                                    !.currentPlayer = TRUE])]
    /\ UNCHANGED <<rmRooms, room, sendCh, faults, lobbyMsgs>>
    /\ LobbyFrame

\* RoomManager.cleanupEmptyRooms for a room whose EmptySince is older than
\* the grace (time passes as it will)
Sweep(r) ==
    /\ sweepers > 0
    /\ r \in rmRooms
    /\ room[r].emptySince
    /\ rmRooms' = rmRooms \ {r}
    /\ UNCHANGED <<room, playerRoom, wsc, sendCh, faults, lobbyMsgs>>
    /\ LobbyFrame

NextLobby ==
    \/ \E c \in Conns, n \in LobbyNames, r \in RoomIds : JoinBegin(c, n, r)
    \/ \E c \in Conns, n \in LobbyNames : CreateBegin(c, n)
    \/ \E c \in Conns : LeaveBegin(c)
    \/ \E c \in Conns : Disconnect(c)
    \/ \E c \in Conns : Ping(c)
    \/ \E c \in Conns : LeaveRemove(c)
    \/ \E c \in Conns : LeaveUntrack(c)
    \/ \E c \in Conns : LeaveStamp(c)
    \/ \E c \in Conns : JoinGetRoom(c)
    \/ \E c \in Conns : JoinCheck(c)
    \/ \E c \in Conns, mp \in MaxPlayersChoices : CreateRoom(c, mp)
    \/ \E c \in Conns : AddPlayer(c)
    \/ \E c \in Conns : SendState(c)
    \/ \E c \in Conns : Track(c)
    \/ \E r \in RoomIds : Sweep(r)

\* Server.Serve has called StartCleanup on the new room manager: one cleanup
\* goroutine runs and done is open
InitLobby ==
    /\ RoomAtRest /\ TimerIdle /\ LocksIdle /\ NoCalls /\ LobbyIdle /\ CastIdle
    /\ LimiterIdle
    /\ saved = 0
    /\ done = "open"
    /\ sweepers = 1

SpecLobby == InitLobby /\ [][NextLobby]_vars

(***************************************************************************)
(* The claims about the room manager and the connections.                  *)
(***************************************************************************)
\* every read loop is between two messages, or has ended
LobbyQuiet == \A c \in Conns : wsc[c].pc \in {"idle", "gone"}

\* the connections that are a player under the name n
Occupants(n) == {c \in Conns : wsc[c].currentPlayer /\ wsc[c].playerName = n}

\* C25: whenever every handler has returned, the name index maps a name to a
\* room exactly if the name is one of the room's players
C25_NameIndexMatchesPlayers ==
    LobbyQuiet =>
        \A n \in LobbyNames, r \in RoomIds :
            playerRoom[n] = r <=> n \in DOMAIN room[r].members

\* C26: no name is the name of the player of two connections at once
C26_NameOccupiedOnce == \A n \in LobbyNames : Cardinality(Occupants(n)) <= 1

\* C27: no room has more players than its MaxPlayersLimit
C27_NeverMoreThanMaxPlayers ==
    \A r \in RoomIds : Cardinality(DOMAIN room[r].members) <= MaxPlayersLimit(r)

\* C28: a player added to a room clears its EmptySince, the EmptySince of a
\* room with a player in it is not set once the handlers have returned, and
\* the sweeper removes no room that has a player in it
C28_NoSweepOfOccupiedRoom ==
    [][\A r \in RoomIds :
          /\ (r \in rmRooms /\ r \notin rmRooms') => DOMAIN room[r].members = {}
          /\ (LobbyQuiet' /\ DOMAIN room'[r].members # {}) => ~room'[r].emptySince
      ]_vars

\* C38: a join that handleJoinRoom refuses (no such room, room full, name in
\* the room) leaves the sender where the handler found it: in the same room,
\* a player of it under its name, and the name index says so
C38_RefusedJoinChangesNothing ==
    [][\A c \in Conns :
          (/\ wsc[c].op = "join"
           /\ wsc[c].pc \in {"getroom", "check"}
           /\ wsc'[c].pc = "idle")
          => LET from == wsc[c].from
             IN  /\ wsc'[c].currentRoom = from.room
                 /\ from.room # "" =>
                        /\ from.name \in DOMAIN room'[from.room].members
                        /\ playerRoom'[from.name] = from.room
      ]_vars

\* C30: no send on a closed Send channel and no close of a closed one
C30_NoSendOnClosedQueue == faults = {}

(***************************************************************************)
(* One session from its first message to its end, and the room manager     *)
(* from Serve to its stop (SpecSession): the read loop of one connection   *)
(* with the writePump goroutines its joins start, the cleanup goroutine    *)
(* and calls of StopCleanup.                                               *)
(***************************************************************************)
\* the connection of the session
Session == {"c1"}

\* RoomManager.StopCleanup: close(rm.done); closing a closed channel panics
StopCleanup ==
    /\ done # "panic"
    /\ done' = IF done = "open" THEN "closed" ELSE "panic"
    /\ UNCHANGED <<sweepers, lobbyVars>>
    /\ UNCHANGED <<roomVars, timerVars, lockVars, callVars, castVars, saved,
                   limitVars>>

\* the cleanup goroutine's select takes the closed done channel and returns
SweeperReturns ==
    /\ sweepers > 0
    /\ done # "open"
    /\ sweepers' = sweepers - 1
    /\ UNCHANGED <<done, lobbyVars>>
    /\ UNCHANGED <<roomVars, timerVars, lockVars, callVars, castVars, saved,
                   limitVars>>

\* writePump on a Player of the connection: the receive from the closed Send
\* channel, the close message, and the deferred conn.Close()
PumpClose(c) ==
    /\ sendCh[c] = "closed"
    /\ wsc[c].conn = "open"
    /\ wsc' = [wsc EXCEPT ![c].conn = "closed"]
    /\ UNCHANGED <<rmRooms, room, playerRoom, sendCh, faults, lobbyMsgs>>
    /\ LobbyFrame

NextSession ==
    \/ \E c \in Session, n \in LobbyNames, r \in RoomIds : JoinBegin(c, n, r)
    \/ \E c \in Session, n \in LobbyNames : CreateBegin(c, n)
    \/ \E c \in Session : LeaveBegin(c)
    \/ \E c \in Session : Disconnect(c)
    \/ \E c \in Session : Ping(c)
    \/ \E c \in Session : LeaveRemove(c)
    \/ \E c \in Session : LeaveUntrack(c)
    \/ \E c \in Session : LeaveStamp(c)
    \/ \E c \in Session : JoinGetRoom(c)
    \/ \E c \in Session : JoinCheck(c)
    \/ \E c \in Session, mp \in MaxPlayersChoices : CreateRoom(c, mp)
    \/ \E c \in Session : AddPlayer(c)
    \/ \E c \in Session : SendState(c)
    \/ \E c \in Session : Track(c)
    \/ \E c \in Session : PumpClose(c)
    \/ \E r \in RoomIds : Sweep(r)
    \/ StopCleanup
    \/ SweeperReturns

SpecSession == InitLobby /\ [][NextSession]_vars

\* C32 (SpecSession): StopCleanup called again, or with no sweeper running,
\* completes without failure: no call of it panics
C32_StopCleanupIsIdempotent == done # "panic"

\* C39 (SpecSession): the server does not close the connection of a session
\* whose client has not gone, so the session goes on after a leave
C39_LeavingKeepsTheSession ==
    \A c \in Session : wsc[c].op # "gone" /\ wsc[c].pc # "gone"
                            => wsc[c].conn = "open"

(***************************************************************************)
(* The broadcasts of answers and leaves in a started game (SpecCast).      *)
(* Every handler runs in the read loop of its connection; it changes the   *)
(* room in one critical section and calls Room.Broadcast afterwards, once  *)
(* for each message, each call a critical section of room.mu of its own.   *)
(* effects is the sequence of the operations in the order in which they    *)
(* changed the room; a message carries the position of its operation in    *)
(* effects.  The read loop of a player is at one of                        *)
(*   "idle"      before the next message                                   *)
(*   "accepted"  the word was applied: about to broadcast word_accepted    *)
(*   "left"      the player was removed: about to broadcast player_left    *)
(*   "list"      about to broadcast player_list                            *)
(*   "gone"      the player has left                                       *)
(***************************************************************************)
\* the operations that take effect
MaxCasts == 3

\* what the handlers of SpecCast leave alone
CastFrame ==
    UNCHANGED <<owner, settings, pendingVote, timerOn, timeouts, games,
                votesStarted, joins, voteEnded, timerVars, lockVars, callVars,
                lobbyVars, saved, sweepVars, limitVars>>

\* Room.Broadcast: the message is enqueued to every player of the room
Broadcast(q, pl, msg) ==
    [n \in Names |-> IF n \in pl THEN Append(q[n], msg) ELSE q[n]]

\* handleAnswer: Room.ValidateAndSubmitWord accepts the word
CastAnswer(p, w) ==
    /\ conn[p].pc = "idle"
    /\ p \in players
    /\ Len(effects) < MaxCasts
    /\ status = "playing"
    /\ engine # NilEngine
    /\ LET r == ValidateAndSubmitWord(engine, w, p, HasPendingVote(pendingVote))
       IN  /\ r.result = "OK"
           /\ engine' = r.ge
    /\ effects' = Append(effects, [op |-> "answer", player |-> p])
    /\ conn' = [conn EXCEPT ![p] = [pc |-> "accepted", n |-> Len(effects) + 1,
                                    word |-> w]]
    /\ handled' = handled + 1
    /\ UNCHANGED <<players, status, queue>>
    /\ CastFrame

\* handleAnswer: broadcastWordAccepted reads the engine and broadcasts
CastAccepted(p) ==
    /\ conn[p].pc = "accepted"
    /\ queue' = Broadcast(queue, players,
                          [type |-> "word_accepted", n |-> conn[p].n,
                           word |-> conn[p].word,
                           currentTurn |-> CurrentTurn(engine)])
    /\ conn' = [conn EXCEPT ![p] = IF p \in players THEN IdleConn ELSE @]
    /\ UNCHANGED <<players, status, engine, handled, effects>>
    /\ CastFrame

\* leaveCurrentRoom: Room.RemovePlayer
CastLeave(p) ==
    /\ conn[p].pc = "idle"
    /\ p \in players
    /\ Len(effects) < MaxCasts
    /\ players' = players \ {p}
    /\ engine' = IF engine # NilEngine THEN EngineRemovePlayer(engine, p)
                 ELSE engine
    /\ effects' = Append(effects, [op |-> "leave", player |-> p])
    /\ conn' = [conn EXCEPT ![p] = [pc |-> "left", n |-> Len(effects) + 1]]
    /\ handled' = handled + 1
    /\ UNCHANGED <<status, queue>>
    /\ CastFrame

\* leaveCurrentRoom: the broadcast of player_left
CastPlayerLeft(p) ==
    /\ conn[p].pc = "left"
    /\ queue' = Broadcast(queue, players,
                          [type |-> "player_left", n |-> conn[p].n, player |-> p])
    /\ conn' = [conn EXCEPT ![p].pc = "list"]
    /\ UNCHANGED <<players, status, engine, handled, effects>>
    /\ CastFrame

\* leaveCurrentRoom: the broadcast of player_list with Room.PlayerNames
CastPlayerList(p) ==
    /\ conn[p].pc = "list"
    /\ queue' = Broadcast(queue, players,
                          [type |-> "player_list", n |-> conn[p].n,
                           players |-> players])
    /\ conn' = [conn EXCEPT ![p] = [pc |-> "gone"]]
    /\ UNCHANGED <<players, status, engine, handled, effects>>
    /\ CastFrame

NextCast ==
    \/ \E p \in Names, w \in Words : CastAnswer(p, w)
    \/ \E p \in Names : CastAccepted(p)
    \/ \E p \in Names : CastLeave(p)
    \/ \E p \in Names : CastPlayerLeft(p)
    \/ \E p \in Names : CastPlayerList(p)

SpecCast == InitSeq /\ [][NextCast]_vars

\* C29: in the queue of every player the messages stand in the order in
\* which their operations took effect on the room, the messages of one
\* operation together
C29_BroadcastsInOrderOfEffect ==
    \A p \in Names : \A i, j \in 1..Len(queue[p]) :
        i < j => queue[p][i].n <= queue[p][j].n

(***************************************************************************)
(* getLastChar applied to one word (SpecKana).  The word is chosen at the  *)
(* start; call holds it, and after the application the result with it.     *)
(***************************************************************************)
\* the length of the words
MaxKanaLen == 4

\* gi, ta, ru, bi, ko, hi, ra, me, n and the long-vowel mark
KanaAlphabet == {12366, 12383, 12427, 12403, 12371, 12402, 12425, 12417, 12435,
                 LongVowelMark}

KanaWords == UNION {[1..n -> KanaAlphabet] : n \in 0..MaxKanaLen}

\* gita-, rubi-, ko-hi-, ra-men
WGita == <<12366, 12383, LongVowelMark>>
WRubi == <<12427, 12403, LongVowelMark>>
WKohi == <<12371, LongVowelMark, 12402, LongVowelMark>>
WRamen == <<12425, LongVowelMark, 12417, 12435>>

InitKana ==
    /\ RoomAtRest /\ TimerIdle /\ LocksIdle /\ LobbyIdle /\ CastIdle
    /\ SweeperIdle /\ LimiterIdle
    /\ call \in {[op |-> "word", word |-> w] : w \in KanaWords}

\* getLastChar(call.word)
LastChar ==
    /\ call.op = "word"
    /\ call' = [op |-> "getLastChar", word |-> call.word,
                result |-> getLastChar(call.word)]
    /\ UNCHANGED <<roomVars, timerVars, lockVars, lobbyVars, castVars, saved, sweepVars, limitVars>>

NextKana == LastChar

SpecKana == InitKana /\ [][NextKana]_vars

\* C34: getLastChar gives ta for gita-, bi for rubi-, hi for ko-hi- and n for
\* ra-men
C34_LastCharOfLongVowelWords ==
    call.op = "getLastChar" =>
        /\ call.word = WGita => call.result = 12383
        /\ call.word = WRubi => call.result = 12403
        /\ call.word = WKohi => call.result = 12402
        /\ call.word = WRamen => call.result = 12435

(***************************************************************************)
(* The rate limiter of one connection (SpecLimit): the read loop calls     *)
(* Allow for every message, one call at a time, and time passes between    *)
(* the calls in whole seconds.  The loop ends at the first call that       *)
(* returns shouldDisconnect.  call holds the last call: its results, the   *)
(* violation counter before it and the run of denials it ends.             *)
(***************************************************************************)
\* the message types sent: one with a limit of its own, one unknown
MsgTypes == {"answer", "bogus"}

\* the limit Allow looks up for a message type
ConfigOf(msgType) ==
    IF msgType \in DOMAIN defaultRateLimits
    THEN defaultRateLimits[msgType]
    ELSE unknownRateLimit

\* ConnectionRateLimiter.Allow: the limiter after the call and its results
AllowResult(l, msgType) ==
    LET g == allow(l.global)
        config == ConfigOf(msgType)
        bucket == IF msgType \in DOMAIN l.buckets
                  THEN l.buckets[msgType]
                  ELSE newTokenBucket(config.Rate, config.Burst)
        b == allow(bucket)
        buckets == [t \in DOMAIN l.buckets \cup {msgType} |->
                       IF t = msgType THEN b.tb ELSE l.buckets[t]]
    IN  IF ~g.ok
        THEN [rl |-> [l EXCEPT !.global = g.tb, !.violations = @ + 1],
              allowed |-> FALSE,
              shouldDisconnect |-> l.violations + 1 >= maxViolations]
        ELSE IF ~b.ok
        THEN [rl |-> [global |-> g.tb, buckets |-> buckets,
                      violations |-> l.violations + 1],
              allowed |-> FALSE,
              shouldDisconnect |-> l.violations + 1 >= maxViolations]
        ELSE [rl |-> [global |-> g.tb, buckets |-> buckets,
                      violations |-> IF l.violations > 0
                                     THEN l.violations - 1
                                     ELSE l.violations],
              allowed |-> TRUE,
              shouldDisconnect |-> FALSE]

\* the denials in a row up to the last call
DenialRun == IF call.op = "Allow" THEN call.run ELSE 0

\* the read loop has returned
Disconnected == call.op = "Allow" /\ call.shouldDisconnect

LimitFrame ==
    UNCHANGED <<roomVars, timerVars, lockVars, lobbyVars, castVars, saved,
                sweepVars>>

\* the read loop's rate limit check of one message
Allow(msgType) ==
    /\ ~Disconnected
    /\ LET res == AllowResult(rl, msgType)
       IN  /\ rl' = res.rl
           /\ call' = [op |-> "Allow", msgType |-> msgType,
                       allowed |-> res.allowed,
                       shouldDisconnect |-> res.shouldDisconnect,
                       was |-> rl.violations,
                       run |-> IF res.allowed THEN 0 ELSE DenialRun + 1]
    /\ LimitFrame

\* a second passes: every bucket gains the tokens of its rate
Second ==
    /\ ~Disconnected
    /\ rl' = [rl EXCEPT !.global = Refilled(@, 1),
                        !.buckets = [t \in DOMAIN @ |-> Refilled(@[t], 1)]]
    /\ rl' # rl
    /\ UNCHANGED call
    /\ LimitFrame

NextLimit ==
    \/ \E msgType \in MsgTypes : Allow(msgType)
    \/ Second

InitLimit ==
    /\ RoomAtRest /\ TimerIdle /\ OthersIdle

SpecLimit == InitLimit /\ [][NextLimit]_vars

\* C33: shouldDisconnect is returned only with a denial and only once 50
\* denials in a row have accumulated; an allowed request returns
\* shouldDisconnect = FALSE and moves the violation counter one step toward
\* zero, never below zero
C33_DisconnectAfterFiftyInARow ==
    call.op = "Allow" =>
        /\ call.shouldDisconnect =>
               ~call.allowed /\ call.run >= maxViolations
        /\ call.allowed =>
               /\ ~call.shouldDisconnect
               /\ rl.violations = (IF call.was > 0 THEN call.was - 1 ELSE 0)
        /\ rl.violations >= 0

=============================================================================
